---- MODULE Spec2Model ----
(***************************************************************************)
(* Model of kernel/arch/x86/hypervisor.cpp: the VMX guest context          *)
(* (VmcsContext / VmcsPerCpu), its construction (Setup), the guest entry   *)
(* path (Enter) and the VM-exit dispatcher (vmexit_handler).               *)
(*                                                                         *)
(* Representation of machine words.  A 64-bit value that the code treats   *)
(* as a number or as memory (uintptr_t, guest registers, the exit          *)
(* qualification) is the tuple of its 8 bytes, least significant first, as *)
(* it lies in memory on x86.  A 32-bit value is a tuple of 4 bytes.  A     *)
(* value that the code treats as a bit mask (VMCS controls, capability     *)
(* MSRs, CR0/CR4) is the set of the positions of its 1 bits.               *)
(*                                                                         *)
(* percpu_exec pins every worker to CPU 0, so there is one CPU, one        *)
(* VmcsPerCpu record and one interrupt flag.  The file is modelled as      *)
(* built WITH_LIB_MAGENTA (the serial FIFO is present).                    *)
(***************************************************************************)
EXTENDS Integers, Sequences, FiniteSets, TLC

\* ------------------------------------------------------------------------
\* Bounds of the model.

\* API calls made in one behaviour.
MaxCalls == 4
\* Capacity of the serial FIFO, in bytes.
MaxFifo == 4

\* ------------------------------------------------------------------------
\* Machine words as byte tuples.

RECURSIVE Bytes(_, _)
\* The k low bytes of the natural number n, least significant first.
Bytes(n, k) == IF k = 0 THEN <<>> ELSE <<n % 256>> \o Bytes(n \div 256, k - 1)

U64(n) == Bytes(n, 8)
U32(n) == Bytes(n, 4)

Zero64 == U64(0)

RECURSIVE AddC(_, _, _)
\* a + b + c on byte tuples of equal length, the carry out of the top dropped.
AddC(a, b, c) ==
    IF a = <<>> THEN <<>>
    ELSE LET s == Head(a) + Head(b) + c
         IN  <<s % 256>> \o AddC(Tail(a), Tail(b), s \div 256)

RECURSIVE SubB(_, _, _)
\* a - b - c on byte tuples of equal length, modulo 2^(8 * Len).
SubB(a, b, c) ==
    IF a = <<>> THEN <<>>
    ELSE LET d == Head(a) - Head(b) - c
         IN  <<d % 256>> \o SubB(Tail(a), Tail(b), IF d < 0 THEN 1 ELSE 0)

\* uint64_t addition and subtraction (wrapping).
Add64(a, b) == AddC(a, b, 0)
Sub64(a, b) == SubB(a, b, 0)

RECURSIVE LtU(_, _)
\* Unsigned a < b on byte tuples of equal length.
LtU(a, b) ==
    IF a = <<>> THEN FALSE
    ELSE LET n == Len(a)
         IN  IF a[n] # b[n] THEN a[n] < b[n]
             ELSE LtU(SubSeq(a, 1, n - 1), SubSeq(b, 1, n - 1))

GeU(a, b) == ~LtU(a, b)

\* Zero extension of a 32-bit value to 64 bits.
ZeroExt(v) == v \o <<0, 0, 0, 0>>

\* BIT_SHIFT(x, bit) and BITS_SHIFT(x, high, low) of <bits.h> on a byte tuple.
BIT_SHIFT(x, bit) == (x[(bit \div 8) + 1] \div (2 ^ (bit % 8))) % 2

RECURSIVE BITS_SHIFT(_, _, _)
BITS_SHIFT(x, high, low) ==
    IF high < low THEN 0
    ELSE BIT_SHIFT(x, low) + 2 * BITS_SHIFT(x, high, low + 1)

\* ------------------------------------------------------------------------
\* Constants of the program.

NO_ERROR == "NO_ERROR"
ERR_INTERNAL == "ERR_INTERNAL"
ERR_NO_MEMORY == "ERR_NO_MEMORY"
ERR_NOT_SUPPORTED == "ERR_NOT_SUPPORTED"
ERR_BAD_STATE == "ERR_BAD_STATE"
ERR_INVALID_ARGS == "ERR_INVALID_ARGS"
\* The status a full FIFO answers a write with.
ERR_SHOULD_WAIT == "ERR_SHOULD_WAIT"

kUartIoPort == 1016

PAGE_SIZE == U64(4096)

UINTPTR_MAX == <<255, 255, 255, 255, 255, 255, 255, 255>>

\* Bits of a 32-bit mask, and the complement within them.
Bits32 == 0 .. 31
Not32(m) == Bits32 \ m

\* VMCS control bits (Intel SDM Volume 3, Section 24.6 - 24.8).
PROCBASED_CTLS2_EPT == {1}
PROCBASED_CTLS2_RDTSCP == {3}
PROCBASED_CTLS2_VPID == {5}
PROCBASED_CTLS2_XSAVES_XRSTORS == {20}
PINBASED_CTLS_EXTINT_EXITING == {0}
PINBASED_CTLS_NMI_EXITING == {3}
PROCBASED_CTLS_CR3_LOAD_EXITING == {15}
PROCBASED_CTLS_CR3_STORE_EXITING == {16}
PROCBASED_CTLS_IO_EXITING == {24}
PROCBASED_CTLS_MSR_BITMAPS == {28}
PROCBASED_CTLS_PROCBASED_CTLS2 == {31}
EXIT_CTLS_64BIT_MODE == {9}
EXIT_CTLS_SAVE_IA32_PAT == {18}
EXIT_CTLS_LOAD_IA32_PAT == {19}
EXIT_CTLS_SAVE_IA32_EFER == {20}
EXIT_CTLS_LOAD_IA32_EFER == {21}
ENTRY_CTLS_IA32E_MODE == {9}
ENTRY_CTLS_LOAD_IA32_PAT == {14}
ENTRY_CTLS_LOAD_IA32_EFER == {15}

\* Control register bits.
X86_CR0_PE == {0}
X86_CR0_NE == {5}
X86_CR0_PG == {31}
X86_CR4_PAE == {5}
X86_CR4_VMXE == {13}

\* Exit reasons the dispatcher names, and two it does not.
ExitReasons ==
    {"EXTERNAL_INTERRUPT", "CPUID", "IO_INSTRUCTION", "WRMSR", "EXCEPTION", "HLT"}

\* ------------------------------------------------------------------------
\* The hardware the program runs on: capability MSRs (each the set of its 1
\* bits, 0 .. 63) and the host CPUID leaf 0.

\* A VMX capability MSR reporting allowed-0 settings in bits 31:0 and
\* allowed-1 settings in bits 63:32.
CtlMsr(allowed_0, allowed_1) == allowed_0 \cup {b + 32 : b \in allowed_1}

PinDefault1 == {1, 2, 4}
ProcDefault1 == {1, 4, 5, 6, 8, 13, 14, 26}
ExitDefault1 == {0, 1, 3, 4, 5, 6, 7, 8, 10, 11, 13, 14, 16, 17}
EntryDefault1 == {0, 1, 3, 4, 5, 6, 7, 8, 12}

\* For each capability MSR: a value of a CPU that supports what Setup asks
\* for, and a value of a CPU that does not.
MsrChoices ==
    [ PROCBASED_CTLS2 |->
          { CtlMsr({}, {1, 2, 3, 5, 7, 20}), CtlMsr({}, {1, 2, 3, 7, 20}) },
      TRUE_PINBASED_CTLS |->
          { CtlMsr(PinDefault1, PinDefault1 \cup {0, 3, 5, 6}),
            CtlMsr(PinDefault1, PinDefault1 \cup {0, 5}) },
      TRUE_PROCBASED_CTLS |->
          { CtlMsr(ProcDefault1,
                   ProcDefault1 \cup {2, 3, 7, 15, 16, 19, 20, 24, 25, 28, 31}),
            CtlMsr(ProcDefault1 \cup {15},
                   ProcDefault1 \cup {2, 3, 7, 15, 16, 19, 20, 24, 25, 28, 31}) },
      TRUE_EXIT_CTLS |->
          { CtlMsr(ExitDefault1,
                   ExitDefault1 \cup {2, 9, 12, 15, 18, 19, 20, 21, 22}),
            CtlMsr(ExitDefault1, ExitDefault1 \cup {2, 9, 12, 15, 18, 19}) },
      TRUE_ENTRY_CTLS |->
          { CtlMsr(EntryDefault1, EntryDefault1 \cup {2, 9, 10, 11, 13, 14, 15}),
            CtlMsr(EntryDefault1, EntryDefault1 \cup {2, 10, 11, 13, 14, 15}) },
      CR0_FIXED0 |-> { {0, 5, 31}, {0, 1, 5, 31} },
      CR4_FIXED0 |-> { {13}, {13, 14} } ]

\* The CPUs of the model: one value of each of these MSRs.
Hardware ==
    { [ PROCBASED_CTLS2 |-> c2, TRUE_PINBASED_CTLS |-> pin,
        TRUE_PROCBASED_CTLS |-> proc, TRUE_EXIT_CTLS |-> ex,
        TRUE_ENTRY_CTLS |-> en, CR0_FIXED0 |-> f0, CR4_FIXED0 |-> f4 ] :
        c2 \in MsrChoices.PROCBASED_CTLS2, pin \in MsrChoices.TRUE_PINBASED_CTLS,
        proc \in MsrChoices.TRUE_PROCBASED_CTLS, ex \in MsrChoices.TRUE_EXIT_CTLS,
        en \in MsrChoices.TRUE_ENTRY_CTLS, f0 \in MsrChoices.CR0_FIXED0,
        f4 \in MsrChoices.CR4_FIXED0 }

\* The capability MSRs that are the same on every CPU of the model.
MsrFixed ==
    [ PINBASED_CTLS |-> CtlMsr(PinDefault1, PinDefault1 \cup {0, 3, 5, 6}),
      PROCBASED_CTLS |->
          CtlMsr(ProcDefault1 \cup {15, 16},
                 ProcDefault1 \cup {2, 3, 7, 15, 16, 19, 20, 24, 25, 28, 31}),
      EXIT_CTLS |->
          CtlMsr(ExitDefault1 \cup {2},
                 ExitDefault1 \cup {2, 9, 12, 15, 18, 19, 20, 21, 22}),
      ENTRY_CTLS |->
          CtlMsr(EntryDefault1 \cup {2},
                 EntryDefault1 \cup {2, 9, 10, 11, 13, 14, 15}),
      CR0_FIXED1 |-> 0 .. 31,
      CR4_FIXED1 |-> 0 .. 22 ]

\* read_msr of a capability MSR on hardware hw.
read_msr(hw, name) ==
    IF name \in DOMAIN MsrFixed THEN MsrFixed[name] ELSE hw[name]

\* cpuid(X86_CPUID_BASE): eax is the highest basic leaf, ebx:edx:ecx spell
\* "GenuineIntel".
HostCpuid0 ==
    [ eax |-> U32(22),
      ebx |-> <<71, 101, 110, 117>>,
      ecx |-> <<110, 116, 101, 108>>,
      edx |-> <<105, 110, 101, 73>> ]

\* A CPU with every capability vmx_enable and VmxPage::Alloc ask for: VMX;
\* IA32_VMX_BASIC with a region size of 4096, write-back memory, I/O exit
\* information and the TRUE controls; the EPT capabilities; wait-for-SIPI.
CapGood ==
    [ VMX |-> TRUE,
      BASIC |-> {0, 44, 51, 52, 54, 55},
      EPT_VPID_CAP |-> {0, 6, 14, 16, 17, 20, 21, 25, 26},
      MISC |-> {5, 8} ]

\* The capable CPU, and the CPUs that lack one capability.
VmxCaps ==
    {CapGood} \cup {[CapGood EXCEPT !.VMX = FALSE]}
    \cup {[CapGood EXCEPT !.BASIC = @ \ {b}] : b \in {51, 54, 55}}
    \cup {[CapGood EXCEPT !.BASIC = @ \cup {32}]}
    \cup {[CapGood EXCEPT !.EPT_VPID_CAP = @ \ {b}] : b \in {6, 14, 20, 21, 25, 26}}
    \cup {[CapGood EXCEPT !.MISC = @ \ {8}]}

\* IA32_FEATURE_CONTROL as the firmware leaves it: unlocked, unlocked with
\* VMXON set, locked without VMXON, locked with VMXON.
FeatureControls == { {}, {2}, {0}, {0, 2} }

\* CR0 and CR4 of the host before VMX is enabled: with and without CR0.NE,
\* without and with CR4.SMXE.
HostCr0s == { {0, 1, 4, 5, 16, 18, 31}, {0, 1, 4, 16, 18, 31} }
HostCr4s == { {5, 7, 9, 10}, {5, 7, 9, 10, 14} }

\* ------------------------------------------------------------------------
\* Inputs of the model.

\* guest_phys_mem->size() of the guests created.
GuestSizes == {U64(0), U64(8192), U64(16384)}

\* Arguments given to x86_guest_set_cr3 for a guest of this size.
Cr3Inputs(size) ==
    { Zero64, Sub64(Sub64(size, PAGE_SIZE), U64(1)), Sub64(size, PAGE_SIZE),
      UINTPTR_MAX }

\* Arguments given to arch_guest_set_entry for a guest of this size.
EntryInputs(size) == {Zero64, Sub64(size, U64(1)), size, UINTPTR_MAX}

\* An I/O exit qualification: access size minus 1 in bits 2:0, direction in
\* bit 3, string in bit 4, REP in bit 5, port in bits 31:16.
MakeQual(size1, input, string, repeat, port) ==
    U64(size1 + (IF input THEN 8 ELSE 0) + (IF string THEN 16 ELSE 0)
        + (IF repeat THEN 32 ELSE 0) + 65536 * port)

IoQualifications ==
    { MakeQual(s, f[1], f[2], f[3], kUartIoPort) :
        s \in {0, 3},
        f \in { <<FALSE, FALSE, FALSE>>, <<TRUE, FALSE, FALSE>>,
                <<FALSE, TRUE, FALSE>>, <<FALSE, FALSE, TRUE>> } }
    \cup { MakeQual(0, FALSE, FALSE, FALSE, 96), MakeQual(0, TRUE, FALSE, FALSE, 96),
           MakeQual(0, FALSE, FALSE, FALSE, 1017) }
    \* OUT 0x3F8, AL with the bits the decoding ignores (63:32 and 15:6) set.
    \cup { <<192, 255, 248, 3, 255, 255, 255, 255>> }

\* Values the guest leaves in rbx, rcx and rdx, and in its
\* IA32_KERNEL_GS_BASE.
FillValues == {Zero64, <<1, 2, 3, 4, 5, 6, 7, 8>>}

\* Values the guest leaves in rax, by the exit it takes.
RaxValues(reason) ==
    CASE reason = "CPUID" -> {Zero64, U64(1), <<0, 0, 0, 0, 1, 0, 0, 0>>}
      [] reason = "IO_INSTRUCTION" -> {U64(65), <<66, 67, 68, 69, 70, 71, 72, 73>>}
      [] OTHER -> {U64(1)}

\* Guest RIP of the exiting instruction and its length.
RipAndLength == { <<U64(4096), 2>>, <<UINTPTR_MAX, 1>> }

\* What a run of the guest ends in: the exit reason and qualification, the
\* length of the exiting instruction, the guest RIP, the guest registers and
\* the guest's IA32_KERNEL_GS_BASE.
GuestExits ==
    UNION { { [ exit_reason |-> r, exit_qualification |-> q,
                instruction_length |-> U32(il[2]), guest_rip |-> il[1],
                guest_state |-> [rax |-> a, rbx |-> f, rcx |-> f, rdx |-> f],
                kernel_gs_base |-> f ] :
              q \in IF r = "IO_INSTRUCTION" THEN IoQualifications ELSE {Zero64},
              il \in RipAndLength, a \in RaxValues(r), f \in FillValues } :
            r \in ExitReasons }

\* ------------------------------------------------------------------------
\* The functions of hypervisor.cpp.

\* Variant of IoInfo::IoInfo that takes the access size from bits 3:0.
IoInfo_four_size_bits(qualification) ==
    [ bytes |-> (BITS_SHIFT(qualification, 3, 0) + 1) % 256,
      input |-> BIT_SHIFT(qualification, 3) = 1,
      string |-> BIT_SHIFT(qualification, 4) = 1,
      repeat |-> BIT_SHIFT(qualification, 5) = 1,
      port |-> BITS_SHIFT(qualification, 31, 16) ]

\* IoInfo::IoInfo: the decoding of an I/O exit qualification.
IoInfo(qualification) ==
    [ bytes |-> (BITS_SHIFT(qualification, 2, 0) + 1) % 256,
      input |-> BIT_SHIFT(qualification, 3) = 1,
      string |-> BIT_SHIFT(qualification, 4) = 1,
      repeat |-> BIT_SHIFT(qualification, 5) = 1,
      port |-> BITS_SHIFT(qualification, 31, 16) ]

\* Variant of cr_is_invalid that looks at the FIXED1 MSR only.
cr_is_invalid_fixed1_only(cr_value, fixed0, fixed1) ==
    (cr_value \ fixed1) # {}

\* cr_is_invalid, given the values read from the two FIXED MSRs.
cr_is_invalid(cr_value, fixed0, fixed1) ==
    (fixed0 \ cr_value) # {} \/ (cr_value \ fixed1) # {}

\* Variant of set_vmcs_control that leaves the allowed_0 bits out of the value.
set_vmcs_control_without_allowed_0(controls, true_msr, old_msr, set, clear) ==
    LET allowed_0 == {b \in true_msr : b <= 31}
        allowed_1 == {b - 32 : b \in {x \in true_msr : x >= 32}}
        flexible == (allowed_0 \ allowed_1) \cup (allowed_1 \ allowed_0)
        unknown == flexible \cap Not32(set \cup clear)
        defaults == unknown \cap {b \in old_msr : b <= 31}
    IN  IF (allowed_1 \cap set) # set
        THEN [status |-> ERR_NOT_SUPPORTED, written |-> FALSE]
        ELSE IF (Not32(allowed_0) \cap clear) # clear
        THEN [status |-> ERR_NOT_SUPPORTED, written |-> FALSE]
        ELSE IF (set \cap clear) # {}
        THEN [status |-> ERR_INVALID_ARGS, written |-> FALSE]
        ELSE [ status |-> NO_ERROR, written |-> TRUE, field |-> controls,
               value |-> defaults \cup set ]

\* Variant of set_vmcs_control that looks for a shared bit of set and clear
\* before it looks at the capability MSR.
set_vmcs_control_overlap_first(controls, true_msr, old_msr, set, clear) ==
    LET allowed_0 == {b \in true_msr : b <= 31}
        allowed_1 == {b - 32 : b \in {x \in true_msr : x >= 32}}
        flexible == (allowed_0 \ allowed_1) \cup (allowed_1 \ allowed_0)
        unknown == flexible \cap Not32(set \cup clear)
        defaults == unknown \cap {b \in old_msr : b <= 31}
    IN  IF (set \cap clear) # {}
        THEN [status |-> ERR_INVALID_ARGS, written |-> FALSE]
        ELSE IF (allowed_1 \cap set) # set
        THEN [status |-> ERR_NOT_SUPPORTED, written |-> FALSE]
        ELSE IF (Not32(allowed_0) \cap clear) # clear
        THEN [status |-> ERR_NOT_SUPPORTED, written |-> FALSE]
        ELSE [ status |-> NO_ERROR, written |-> TRUE, field |-> controls,
               value |-> allowed_0 \cup defaults \cup set ]

\* set_vmcs_control: the status, and the field and value written on success.
set_vmcs_control(controls, true_msr, old_msr, set, clear) ==
    LET allowed_0 == {b \in true_msr : b <= 31}
        allowed_1 == {b - 32 : b \in {x \in true_msr : x >= 32}}
        flexible == (allowed_0 \ allowed_1) \cup (allowed_1 \ allowed_0)
        unknown == flexible \cap Not32(set \cup clear)
        defaults == unknown \cap {b \in old_msr : b <= 31}
    IN  IF (allowed_1 \cap set) # set
        THEN [status |-> ERR_NOT_SUPPORTED, written |-> FALSE]
        ELSE IF (Not32(allowed_0) \cap clear) # clear
        THEN [status |-> ERR_NOT_SUPPORTED, written |-> FALSE]
        ELSE IF (set \cap clear) # {}
        THEN [status |-> ERR_INVALID_ARGS, written |-> FALSE]
        ELSE [ status |-> NO_ERROR, written |-> TRUE, field |-> controls,
               value |-> allowed_0 \cup defaults \cup set ]

\* The set_vmcs_control calls of VmcsPerCpu::Setup, in order.
SetupControls(hw) ==
    << [ controls |-> "PROCBASED_CTLS2",
         true_msr |-> read_msr(hw, "PROCBASED_CTLS2"),
         old_msr |-> {},
         set |-> PROCBASED_CTLS2_EPT \cup PROCBASED_CTLS2_RDTSCP
                 \cup PROCBASED_CTLS2_VPID \cup PROCBASED_CTLS2_XSAVES_XRSTORS,
         clear |-> {} ],
       [ controls |-> "PINBASED_CTLS",
         true_msr |-> read_msr(hw, "TRUE_PINBASED_CTLS"),
         old_msr |-> read_msr(hw, "PINBASED_CTLS"),
         set |-> PINBASED_CTLS_EXTINT_EXITING \cup PINBASED_CTLS_NMI_EXITING,
         clear |-> {} ],
       [ controls |-> "PROCBASED_CTLS",
         true_msr |-> read_msr(hw, "TRUE_PROCBASED_CTLS"),
         old_msr |-> read_msr(hw, "PROCBASED_CTLS"),
         set |-> PROCBASED_CTLS_IO_EXITING \cup PROCBASED_CTLS_MSR_BITMAPS
                 \cup PROCBASED_CTLS_PROCBASED_CTLS2,
         clear |-> PROCBASED_CTLS_CR3_LOAD_EXITING
                   \cup PROCBASED_CTLS_CR3_STORE_EXITING ],
       [ controls |-> "EXIT_CTLS",
         true_msr |-> read_msr(hw, "TRUE_EXIT_CTLS"),
         old_msr |-> read_msr(hw, "EXIT_CTLS"),
         set |-> EXIT_CTLS_64BIT_MODE \cup EXIT_CTLS_SAVE_IA32_PAT
                 \cup EXIT_CTLS_LOAD_IA32_PAT \cup EXIT_CTLS_SAVE_IA32_EFER
                 \cup EXIT_CTLS_LOAD_IA32_EFER,
         clear |-> {} ],
       [ controls |-> "ENTRY_CTLS",
         true_msr |-> read_msr(hw, "TRUE_ENTRY_CTLS"),
         old_msr |-> read_msr(hw, "ENTRY_CTLS"),
         set |-> ENTRY_CTLS_IA32E_MODE \cup ENTRY_CTLS_LOAD_IA32_PAT
                 \cup ENTRY_CTLS_LOAD_IA32_EFER,
         clear |-> {} ] >>

RECURSIVE ApplyControls(_, _)
\* The calls cs made one after the other on the VMCS v, stopping at the first
\* that fails: the status, and the VMCS with the fields written so far.
ApplyControls(cs, v) ==
    IF cs = <<>> THEN [status |-> NO_ERROR, vmcs |-> v]
    ELSE LET c == Head(cs)
             r == set_vmcs_control(c.controls, c.true_msr, c.old_msr, c.set, c.clear)
         IN  IF r.status # NO_ERROR THEN [status |-> r.status, vmcs |-> v]
             ELSE ApplyControls(Tail(cs), [v EXCEPT ![r.field] = r.value])

\* A page as memset(VirtualAddress(), fill, PAGE_SIZE) leaves it: every byte
\* is fill but those listed in bytes, by offset.
FilledPage(fill) == [fill |-> fill, bytes |-> << >>]

\* The byte at offset off of a page.
PageByte(page, off) ==
    IF off \in DOMAIN page.bytes THEN page.bytes[off] ELSE page.fill

\* The page with the byte at offset off set to b.
PageWrite(page, off, b) ==
    [ page EXCEPT !.bytes =
        [o \in DOMAIN page.bytes \cup {off} |->
            IF o = off THEN b ELSE page.bytes[o]] ]

\* MSR numbers are 32-bit values, kept as four bytes, lowest first:
\* 0xc0000101 and 0xc0000102.
X86_MSR_IA32_GS_BASE == <<1, 1, 0, 192>>
X86_MSR_IA32_KERNEL_GS_BASE == <<2, 1, 0, 192>>

\* The byte b with bit number bit cleared: b & (uint8_t)~(1 << bit).
ClearBit(b, bit) ==
    IF (b \div (2 ^ bit)) % 2 = 1 THEN b - 2 ^ bit ELSE b

\* Variant of ignore_msr that uses the low-MSR halves for every MSR.
ignore_msr_low_halves(msr_bitmaps_page, msr) ==
    LET msr_low == msr[1] + 256 * (msr[2] % 32)
        msr_byte == msr_low \div 8
        msr_bit == msr_low % 8
        rd == msr_byte
        wr == 2048 + msr_byte
        p1 == PageWrite(msr_bitmaps_page, rd,
                        ClearBit(PageByte(msr_bitmaps_page, rd), msr_bit))
    IN  PageWrite(p1, wr, ClearBit(PageByte(p1, wr), msr_bit))

\* ignore_msr: the MSR bitmaps page with the read bit and the write bit of
\* msr cleared.
ignore_msr(msr_bitmaps_page, msr) ==
    LET base == IF msr[4] >= 192 THEN 1024 ELSE 0
        msr_low == msr[1] + 256 * (msr[2] % 32)
        msr_byte == msr_low \div 8
        msr_bit == msr_low % 8
        rd == base + msr_byte
        wr == base + 2048 + msr_byte
        p1 == PageWrite(msr_bitmaps_page, rd,
                        ClearBit(PageByte(msr_bitmaps_page, rd), msr_bit))
    IN  PageWrite(p1, wr, ClearBit(PageByte(p1, wr), msr_bit))

\* Variant of Vpid that writes the CPU number itself.
Vpid_is_cpu_num(cpu_num) == cpu_num % 65536

\* The value Setup writes to the VPID field on the CPU numbered cpu_num:
\* static_cast<uint16_t>(percpu->cpu_num + 1).
Vpid(cpu_num) == (cpu_num + 1) % 65536

\* MSR numbers 0xc0000081, 0xc0000082 and 0xc0000084.
X86_MSR_IA32_STAR == <<129, 0, 0, 192>>
X86_MSR_IA32_LSTAR == <<130, 0, 0, 192>>
X86_MSR_IA32_FMASK == <<132, 0, 0, 192>>

\* The values read_msr returns for the system-call MSRs of the host.
HostMsrs ==
    [ STAR |-> <<0, 0, 0, 0, 8, 0, 35, 0>>,
      LSTAR |-> <<0, 16, 16, 128, 255, 255, 255, 255>>,
      FMASK |-> <<0, 71, 4, 0, 0, 0, 0, 0>> ]

\* IA32_KERNEL_GS_BASE while a user thread is in the kernel: the GS base of
\* that thread.  UserGsBase is the thread that calls first.
UserGsBase == <<0, 0, 64, 0, 0, 0, 0, 0>>
UserGsBases == {UserGsBase, <<0, 0, 128, 0, 0, 0, 0, 0>>}

\* sizeof(MsrListEntry): uint32_t msr, uint32_t reserved, uint64_t value.
SizeofMsrListEntry == 16

\* A zero-filled page seen as an MSR list: the entries written, by index.
\* panic tells that the ASSERT of edit_msr_list did not hold.
MsrListZero == [entries |-> << >>, panic |-> FALSE]

\* Variant of edit_msr_list that writes the entry after the one asked for.
edit_msr_list_off_by_one(msr_list_page, index, msr, value) ==
    IF index < 512 \div SizeofMsrListEntry
    THEN [ msr_list_page EXCEPT !.entries =
             [ i \in DOMAIN msr_list_page.entries \cup {index + 1} |->
                 IF i = index + 1 THEN [msr |-> msr, value |-> value]
                 ELSE msr_list_page.entries[i] ] ]
    ELSE [msr_list_page EXCEPT !.panic = TRUE]

\* edit_msr_list: the list with the entry at index set.
edit_msr_list(msr_list_page, index, msr, value) ==
    IF index < 512 \div SizeofMsrListEntry
    THEN [ msr_list_page EXCEPT !.entries =
             [ i \in DOMAIN msr_list_page.entries \cup {index} |->
                 IF i = index THEN [msr |-> msr, value |-> value]
                 ELSE msr_list_page.entries[i] ] ]
    ELSE [msr_list_page EXCEPT !.panic = TRUE]

\* VmcsPerCpu::Setup after the VMCS is loaded, on a CPU whose number, CR0 and
\* CR4 are cpu.cpu_num, cpu.cr0 and cpu.cr4: the status returned, and the
\* VMCS, the MSR bitmaps page and the two MSR lists as the writes made up to
\* the return leave them.
Setup(v, bitmaps, host_list, guest_list, hw, cpu) ==
    LET c == ApplyControls(SetupControls(hw), v)
        b == ignore_msr(ignore_msr(bitmaps, X86_MSR_IA32_GS_BASE),
                        X86_MSR_IA32_KERNEL_GS_BASE)
        hl == edit_msr_list(
                  edit_msr_list(
                      edit_msr_list(host_list, 0, X86_MSR_IA32_STAR, HostMsrs.STAR),
                      1, X86_MSR_IA32_LSTAR, HostMsrs.LSTAR),
                  2, X86_MSR_IA32_FMASK, HostMsrs.FMASK)
        gl == edit_msr_list(guest_list, 0, X86_MSR_IA32_KERNEL_GS_BASE, Zero64)
        h == [ c.vmcs EXCEPT !.EXIT_MSR_LOAD_COUNT = 4,
                             !.EXIT_MSR_STORE_COUNT = 1,
                             !.ENTRY_MSR_LOAD_COUNT = 1,
                             !.VPID = Vpid(cpu.cpu_num), !.HOST_CR0 = cpu.cr0,
                             !.HOST_CR4 = cpu.cr4 ]
        cr0_guest == X86_CR0_PE \cup X86_CR0_PG \cup X86_CR0_NE
        cr4_guest == X86_CR4_PAE \cup X86_CR4_VMXE
        written == [ status |-> ERR_BAD_STATE, vmcs |-> h, msr_bitmaps |-> b,
                     host_msr_page |-> hl, guest_msr_page |-> gl ]
    IN  IF c.status # NO_ERROR
        THEN [ status |-> c.status, vmcs |-> c.vmcs, msr_bitmaps |-> bitmaps,
               host_msr_page |-> host_list, guest_msr_page |-> guest_list ]
        ELSE IF cr_is_invalid(cr0_guest, read_msr(hw, "CR0_FIXED0"),
                              read_msr(hw, "CR0_FIXED1"))
        THEN written
        ELSE IF cr_is_invalid(cr4_guest, read_msr(hw, "CR4_FIXED0"),
                              read_msr(hw, "CR4_FIXED1"))
        THEN [written EXCEPT !.vmcs = [h EXCEPT !.GUEST_CR0 = cr0_guest]]
        ELSE [ written EXCEPT !.status = NO_ERROR,
                              !.vmcs = [h EXCEPT !.GUEST_CR0 = cr0_guest,
                                                 !.GUEST_CR4 = cr4_guest] ]

\* ExitInfo::ExitInfo: the exit information read from the current VMCS.
ExitInfo(v) ==
    [ exit_reason |-> v.EXIT_REASON,
      exit_qualification |-> v.EXIT_QUALIFICATION,
      instruction_length |-> v.INSTRUCTION_LENGTH,
      guest_rip |-> v.GUEST_RIP ]

\* next_rip: the value written to GUEST_RIP.
next_rip(exit_info) ==
    Add64(exit_info.guest_rip, ZeroExt(exit_info.instruction_length))

X86_CPUID_BASE == 0

\* A store of 32 bits through a uint32_t* that points at a 64-bit register:
\* the low four bytes are replaced, the high four keep their value.
StoreLow32(reg, v) == v \o SubSeq(reg, 5, 8)

\* handle_cpuid: the status, the guest registers and the VMCS it leaves.
handle_cpuid(exit_info, guest_state, v) ==
    IF guest_state.rax = U64(X86_CPUID_BASE)
    THEN [ status |-> NO_ERROR,
           guest_state |->
               [ rax |-> Zero64,
                 rbx |-> StoreLow32(guest_state.rbx, HostCpuid0.ebx),
                 rcx |-> StoreLow32(guest_state.rcx, HostCpuid0.ecx),
                 rdx |-> StoreLow32(guest_state.rdx, HostCpuid0.edx) ],
           vmcs |-> [v EXCEPT !.GUEST_RIP = next_rip(exit_info)] ]
    ELSE [status |-> ERR_NOT_SUPPORTED, guest_state |-> guest_state, vmcs |-> v]

\* FifoDispatcher::Write of the bytes data: a FIFO with room that accepts the
\* write takes all of it, otherwise nothing is written.
FifoWrite(fifo, data, accepts) ==
    IF accepts /\ Len(fifo) + Len(data) <= MaxFifo
    THEN [status |-> NO_ERROR, fifo |-> fifo \o data]
    ELSE [status |-> ERR_SHOULD_WAIT, fifo |-> fifo]

\* Variant of handle_io that forwards one byte whatever the access size.
handle_io_one_byte(exit_info, guest_state, v, fifo, accepts) ==
    LET io_info == IoInfo(exit_info.exit_qualification)
        v1 == [v EXCEPT !.GUEST_RIP = next_rip(exit_info)]
        data == SubSeq(guest_state.rax, 1, 1)
        w == FifoWrite(fifo, data, accepts)
    IN  IF io_info.input \/ io_info.string \/ io_info.repeat
           \/ io_info.port # kUartIoPort
        THEN [ status |-> NO_ERROR, guest_state |-> guest_state, vmcs |-> v1,
               fifo |-> fifo, writes |-> <<>> ]
        ELSE [ status |-> w.status, guest_state |-> guest_state, vmcs |-> v1,
               fifo |-> w.fifo, writes |-> <<data>> ]

\* Variant of handle_io that does not test io_info.repeat.
handle_io_ignores_repeat(exit_info, guest_state, v, fifo, accepts) ==
    LET io_info == IoInfo(exit_info.exit_qualification)
        v1 == [v EXCEPT !.GUEST_RIP = next_rip(exit_info)]
        data == SubSeq(guest_state.rax, 1, io_info.bytes)
        w == FifoWrite(fifo, data, accepts)
    IN  IF io_info.input \/ io_info.string \/ io_info.port # kUartIoPort
        THEN [ status |-> NO_ERROR, guest_state |-> guest_state, vmcs |-> v1,
               fifo |-> fifo, writes |-> <<>> ]
        ELSE [ status |-> w.status, guest_state |-> guest_state, vmcs |-> v1,
               fifo |-> w.fifo, writes |-> <<data>> ]

\* The IO_INSTRUCTION case of vmexit_handler.
handle_io(exit_info, guest_state, v, fifo, accepts) ==
    LET io_info == IoInfo(exit_info.exit_qualification)
        v1 == [v EXCEPT !.GUEST_RIP = next_rip(exit_info)]
        data == SubSeq(guest_state.rax, 1, io_info.bytes)
        w == FifoWrite(fifo, data, accepts)
    IN  IF io_info.input \/ io_info.string \/ io_info.repeat
           \/ io_info.port # kUartIoPort
        THEN [ status |-> NO_ERROR, guest_state |-> guest_state, vmcs |-> v1,
               fifo |-> fifo, writes |-> <<>> ]
        ELSE [ status |-> w.status, guest_state |-> guest_state, vmcs |-> v1,
               fifo |-> w.fifo, writes |-> <<data>> ]

\* Variant of vmexit_handler whose default case returns NO_ERROR.
vmexit_handler_default_ok(exit_info, guest_state, v, fifo, accepts) ==
    LET same == [ status |-> ERR_NOT_SUPPORTED, guest_state |-> guest_state,
                  vmcs |-> v, fifo |-> fifo, writes |-> <<>>, window |-> FALSE ]
    IN  CASE exit_info.exit_reason = "EXTERNAL_INTERRUPT" ->
                 [same EXCEPT !.status = NO_ERROR, !.window = TRUE]
          [] exit_info.exit_reason = "CPUID" ->
                 LET r == handle_cpuid(exit_info, guest_state, v)
                 IN  [ same EXCEPT !.status = r.status,
                                   !.guest_state = r.guest_state, !.vmcs = r.vmcs ]
          [] exit_info.exit_reason = "IO_INSTRUCTION" ->
                 LET r == handle_io(exit_info, guest_state, v, fifo, accepts)
                 IN  [ same EXCEPT !.status = r.status, !.vmcs = r.vmcs,
                                   !.fifo = r.fifo, !.writes = r.writes ]
          [] exit_info.exit_reason = "WRMSR" -> same
          [] OTHER -> [same EXCEPT !.status = NO_ERROR]

\* vmexit_handler: the status, the guest registers, the VMCS and the FIFO it
\* leaves, and the payloads of the FIFO writes it made.  window tells that
\* the handler opened and closed the interrupt window.
vmexit_handler(exit_info, guest_state, v, fifo, accepts) ==
    LET same == [ status |-> ERR_NOT_SUPPORTED, guest_state |-> guest_state,
                  vmcs |-> v, fifo |-> fifo, writes |-> <<>>, window |-> FALSE ]
    IN  CASE exit_info.exit_reason = "EXTERNAL_INTERRUPT" ->
                 [same EXCEPT !.status = NO_ERROR, !.window = TRUE]
          [] exit_info.exit_reason = "CPUID" ->
                 LET r == handle_cpuid(exit_info, guest_state, v)
                 IN  [ same EXCEPT !.status = r.status,
                                   !.guest_state = r.guest_state, !.vmcs = r.vmcs ]
          [] exit_info.exit_reason = "IO_INSTRUCTION" ->
                 LET r == handle_io(exit_info, guest_state, v, fifo, accepts)
                 IN  [ same EXCEPT !.status = r.status, !.vmcs = r.vmcs,
                                   !.fifo = r.fifo, !.writes = r.writes ]
          [] exit_info.exit_reason = "WRMSR" -> same
          [] OTHER -> same

\* Variant of Enter_result that never sets do_resume_.
Enter_result_never_resume(vmx_status, do_resume, handler_status) ==
    IF vmx_status # NO_ERROR
    THEN [do_resume |-> do_resume, status |-> vmx_status]
    ELSE [do_resume |-> do_resume, status |-> handler_status]

\* Variant of Enter_result that sets do_resume_ whatever vmx_enter returned.
Enter_result_resume_always(vmx_status, do_resume, handler_status) ==
    IF vmx_status # NO_ERROR
    THEN [do_resume |-> TRUE, status |-> vmx_status]
    ELSE [do_resume |-> TRUE, status |-> handler_status]

\* Variant of Enter_result that sets do_resume_ only when the exit handler
\* succeeded.
Enter_result_resume_on_success(vmx_status, do_resume, handler_status) ==
    IF vmx_status # NO_ERROR
    THEN [do_resume |-> do_resume, status |-> vmx_status]
    ELSE [ do_resume |-> (do_resume \/ handler_status = NO_ERROR),
           status |-> handler_status ]

\* VmcsPerCpu::Enter after vmx_enter returned vmx_status: the value of
\* do_resume_ and the status returned, handler_status being what
\* vmexit_handler returns when it is called.
Enter_result(vmx_status, do_resume, handler_status) ==
    IF vmx_status # NO_ERROR
    THEN [do_resume |-> do_resume, status |-> vmx_status]
    ELSE [do_resume |-> TRUE, status |-> handler_status]

\* Variant of set_cr3 that compares with > instead of >=.
set_cr3_strict(guest_cr3, size, cr3) ==
    IF LtU(Sub64(size, PAGE_SIZE), guest_cr3)
    THEN [status |-> ERR_INVALID_ARGS, cr3 |-> cr3]
    ELSE [status |-> NO_ERROR, cr3 |-> guest_cr3]

\* Variant of set_cr3 that stores the argument before it checks it.
set_cr3_stores_rejected(guest_cr3, size, cr3) ==
    IF GeU(guest_cr3, Sub64(size, PAGE_SIZE))
    THEN [status |-> ERR_INVALID_ARGS, cr3 |-> guest_cr3]
    ELSE [status |-> NO_ERROR, cr3 |-> guest_cr3]

\* VmcsContext::set_cr3: the status and the value of cr3_ it leaves.
set_cr3(guest_cr3, size, cr3) ==
    IF GeU(guest_cr3, Sub64(size, PAGE_SIZE))
    THEN [status |-> ERR_INVALID_ARGS, cr3 |-> cr3]
    ELSE [status |-> NO_ERROR, cr3 |-> guest_cr3]

\* Variant of set_entry that compares with > instead of >=.
set_entry_strict(guest_entry, size, entry) ==
    IF LtU(size, guest_entry)
    THEN [status |-> ERR_INVALID_ARGS, entry |-> entry]
    ELSE [status |-> NO_ERROR, entry |-> guest_entry]

\* VmcsContext::set_entry: the status and the value of entry_ it leaves.
set_entry(guest_entry, size, entry) ==
    IF GeU(guest_entry, size)
    THEN [status |-> ERR_INVALID_ARGS, entry |-> entry]
    ELSE [status |-> NO_ERROR, entry |-> guest_entry]

\* Variant of Enter_check that forgets the check of entry_.
Enter_check_cr3_only(cr3, entry) ==
    IF cr3 = UINTPTR_MAX THEN ERR_BAD_STATE ELSE NO_ERROR

\* VmcsContext::Enter before percpu_exec: NO_ERROR when the worker is to run.
Enter_check(cr3, entry) ==
    IF cr3 = UINTPTR_MAX THEN ERR_BAD_STATE
    ELSE IF entry = UINTPTR_MAX THEN ERR_BAD_STATE
    ELSE NO_ERROR

\* ------------------------------------------------------------------------
\* VMX bring-up: the capability probe, VmxPage, vmx_enable and vmx_disable.

X86_MSR_IA32_FEATURE_CONTROL_LOCK == {0}
X86_MSR_IA32_FEATURE_CONTROL_VMXON == {2}
VMX_MEMORY_TYPE_WRITE_BACK == 6

RECURSIVE BitsOf(_, _, _)
\* BITS_SHIFT(x, high, low) of an MSR given as the set of its 1 bits.
BitsOf(x, high, low) ==
    IF high < low THEN 0
    ELSE (IF low \in x THEN 1 ELSE 0) + 2 * BitsOf(x, high, low + 1)

\* VmxInfo::VmxInfo on the value of IA32_VMX_BASIC.
VmxInfo(basic_info) ==
    [ revision_id |-> BitsOf(basic_info, 30, 0),
      region_size |-> BitsOf(basic_info, 44, 32),
      write_back |-> BitsOf(basic_info, 53, 50) = VMX_MEMORY_TYPE_WRITE_BACK,
      io_exit_info |-> 54 \in basic_info,
      vmx_controls |-> 55 \in basic_info ]

\* VmxInfo of each CPU of the model.
vmx_info_of == [b \in {c.BASIC : c \in VmxCaps} |-> VmxInfo(b)]

\* MiscInfo::MiscInfo on the value of IA32_VMX_MISC.
MiscInfo(misc_info) ==
    [ wait_for_sipi |-> 8 \in misc_info,
      msr_list_limit |-> (BitsOf(misc_info, 27, 25) + 1) * 512 ]

\* EptInfo::EptInfo on the value of IA32_VMX_EPT_VPID_CAP.
EptInfo(ept_info) ==
    [ page_walk_4 |-> 6 \in ept_info,
      write_back |-> 14 \in ept_info,
      pde_2mb_page |-> 16 \in ept_info,
      pdpe_1gb_page |-> 17 \in ept_info,
      ept_flags |-> 21 \in ept_info,
      exit_info |-> 22 \in ept_info,
      invept |-> 20 \in ept_info /\ 25 \in ept_info /\ 26 \in ept_info ]

\* The frames of the allocator.
Frames == 1 .. 6

\* The VmxPage objects: the VMXON region of the VmxonPerCpu and the four pages
\* of the VmcsPerCpu; and the VMXON region of a VmxonContext made earlier that
\* its owner still holds.
VmxonPages == {"vmxon.page_"}
EarlierPages == {"earlier.page_"}
VmcsPages ==
    { "vmcs.page_", "vmcs.msr_bitmaps_page_", "vmcs.host_msr_page_",
      "vmcs.guest_msr_page_" }

\* pmm_alloc_page: nullptr when the allocator refuses or has no frame left,
\* else a frame that is not handed out.
pmm_alloc_page(pm, pmm_ok) ==
    IF ~pmm_ok \/ Frames \ pm.allocated = {}
    THEN [page |-> 0, pmm |-> pm]
    ELSE LET f == CHOOSE x \in Frames \ pm.allocated :
                      \A y \in Frames \ pm.allocated : x <= y
         IN  [page |-> f, pmm |-> [pm EXCEPT !.allocated = @ \cup {f}]]

\* pmm_free_page of the frame at address pa.
pmm_free_page(pm, pa) ==
    IF pa \in pm.allocated
    THEN [pm EXCEPT !.allocated = @ \ {pa}]
    ELSE [pm EXCEPT !.bad_free = TRUE]

\* Variant of VmxPage::~VmxPage that keeps the frame.
VmxPage_dtor_keeps_frame(pm, pa) == pm

\* VmxPage::~VmxPage: paddr_to_vm_page(0) is nullptr.
VmxPage_dtor(pm, pa) ==
    IF pa # 0 THEN pmm_free_page(pm, pa) ELSE pm

RECURSIVE FreePages(_, _, _)
\* The destructors of the VmxPage objects named in pages.
FreePages(pm, pas, pages) ==
    IF pages = {} THEN pm
    ELSE LET p == CHOOSE x \in pages : TRUE
         IN  FreePages(VmxPage_dtor(pm, pas[p]), pas, pages \ {p})

\* VmxPage::Alloc: the status, pa_ and the allocator after it.
VmxPage_Alloc(vmx_info, pm, pmm_ok) ==
    IF LtU(PAGE_SIZE, U64(vmx_info.region_size))
    THEN [status |-> ERR_NOT_SUPPORTED, pa |-> 0, pmm |-> pm]
    ELSE IF ~vmx_info.write_back
    THEN [status |-> ERR_NOT_SUPPORTED, pa |-> 0, pmm |-> pm]
    ELSE LET a == pmm_alloc_page(pm, pmm_ok)
         IN  IF a.page = 0
             THEN [status |-> ERR_NO_MEMORY, pa |-> 0, pmm |-> pm]
             ELSE [status |-> NO_ERROR, pa |-> a.page, pmm |-> a.pmm]

\* VmcsPerCpu::Init: the four pages are allocated in order, up to the first
\* that fails; fail_at is the allocation the allocator refuses (0: none).
VmcsPerCpu_Init(vmx_info, pm, fail_at) ==
    LET none == [p \in VmcsPages |-> 0]
        a1 == VmxPage_Alloc(vmx_info, pm, fail_at # 1)
        a2 == VmxPage_Alloc(vmx_info, a1.pmm, fail_at # 2)
        a3 == VmxPage_Alloc(vmx_info, a2.pmm, fail_at # 3)
        a4 == VmxPage_Alloc(vmx_info, a3.pmm, fail_at # 4)
        p1 == [none EXCEPT !["vmcs.page_"] = a1.pa]
        p2 == [p1 EXCEPT !["vmcs.msr_bitmaps_page_"] = a2.pa]
        p3 == [p2 EXCEPT !["vmcs.host_msr_page_"] = a3.pa]
        p4 == [p3 EXCEPT !["vmcs.guest_msr_page_"] = a4.pa]
    IN  IF a1.status # NO_ERROR
        THEN [status |-> a1.status, pa |-> none, pmm |-> a1.pmm]
        ELSE IF a2.status # NO_ERROR
        THEN [status |-> a2.status, pa |-> p1, pmm |-> a2.pmm]
        ELSE IF a3.status # NO_ERROR
        THEN [status |-> a3.status, pa |-> p2, pmm |-> a3.pmm]
        ELSE IF a4.status # NO_ERROR
        THEN [status |-> a4.status, pa |-> p3, pmm |-> a4.pmm]
        ELSE [status |-> NO_ERROR, pa |-> p4, pmm |-> a4.pmm]

\* Variant of vmx_enable that writes IA32_FEATURE_CONTROL whenever LOCK or
\* VMXON is clear.
vmx_enable_without_lockout(cap, fc, cr0_value, cr4_value, hw, in_root, vmxon_ok) ==
    LET vmx_info == VmxInfo(cap.BASIC)
        ept_info == EptInfo(cap.EPT_VPID_CAP)
        misc_info == MiscInfo(cap.MISC)
        early(st) ==
            [ status |-> st, feature_control |-> fc, cr4 |-> cr4_value,
              is_on |-> FALSE, vmx_root |-> in_root, msr_read |-> FALSE,
              msr_written |-> FALSE, vmxon_executed |-> FALSE ]
        locked == X86_MSR_IA32_FEATURE_CONTROL_LOCK \subseteq fc
        vmxon_set == X86_MSR_IA32_FEATURE_CONTROL_VMXON \subseteq fc
        write == ~locked \/ ~vmxon_set
        fc1 == IF write
               THEN fc \cup X86_MSR_IA32_FEATURE_CONTROL_LOCK
                       \cup X86_MSR_IA32_FEATURE_CONTROL_VMXON
               ELSE fc
        cr4_1 == cr4_value \cup X86_CR4_VMXE
        on == ~in_root /\ vmxon_ok
    IN  IF ~vmx_info.io_exit_info THEN early(ERR_NOT_SUPPORTED)
        ELSE IF ~vmx_info.vmx_controls THEN early(ERR_NOT_SUPPORTED)
        ELSE IF ~ept_info.page_walk_4 THEN early(ERR_NOT_SUPPORTED)
        ELSE IF ~ept_info.write_back THEN early(ERR_NOT_SUPPORTED)
        ELSE IF ~ept_info.ept_flags THEN early(ERR_NOT_SUPPORTED)
        ELSE IF ~ept_info.invept THEN early(ERR_NOT_SUPPORTED)
        ELSE IF ~misc_info.wait_for_sipi THEN early(ERR_NOT_SUPPORTED)
        ELSE IF cr_is_invalid(cr0_value, read_msr(hw, "CR0_FIXED0"),
                              read_msr(hw, "CR0_FIXED1"))
        THEN [ early(ERR_BAD_STATE) EXCEPT !.feature_control = fc1,
                                           !.msr_read = TRUE,
                                           !.msr_written = write ]
        ELSE IF cr_is_invalid(cr4_1, read_msr(hw, "CR4_FIXED0"),
                              read_msr(hw, "CR4_FIXED1"))
        THEN [ early(ERR_BAD_STATE) EXCEPT !.feature_control = fc1,
                                           !.msr_read = TRUE,
                                           !.msr_written = write ]
        ELSE [ status |-> IF on THEN NO_ERROR ELSE ERR_INTERNAL,
               feature_control |-> fc1, cr4 |-> cr4_1, is_on |-> on,
               vmx_root |-> (in_root \/ on), msr_read |-> TRUE,
               msr_written |-> write, vmxon_executed |-> TRUE ]

\* Variant of vmx_enable that does not look at wait_for_sipi.
vmx_enable_without_sipi_check(cap, fc, cr0_value, cr4_value, hw, in_root, vmxon_ok) ==
    LET vmx_info == VmxInfo(cap.BASIC)
        ept_info == EptInfo(cap.EPT_VPID_CAP)
        misc_info == MiscInfo(cap.MISC)
        early(st) ==
            [ status |-> st, feature_control |-> fc, cr4 |-> cr4_value,
              is_on |-> FALSE, vmx_root |-> in_root, msr_read |-> FALSE,
              msr_written |-> FALSE, vmxon_executed |-> FALSE ]
        locked == X86_MSR_IA32_FEATURE_CONTROL_LOCK \subseteq fc
        vmxon_set == X86_MSR_IA32_FEATURE_CONTROL_VMXON \subseteq fc
        write == ~locked \/ ~vmxon_set
        fc1 == IF write
               THEN fc \cup X86_MSR_IA32_FEATURE_CONTROL_LOCK
                       \cup X86_MSR_IA32_FEATURE_CONTROL_VMXON
               ELSE fc
        cr4_1 == cr4_value \cup X86_CR4_VMXE
        on == ~in_root /\ vmxon_ok
    IN  IF ~vmx_info.io_exit_info THEN early(ERR_NOT_SUPPORTED)
        ELSE IF ~vmx_info.vmx_controls THEN early(ERR_NOT_SUPPORTED)
        ELSE IF ~ept_info.page_walk_4 THEN early(ERR_NOT_SUPPORTED)
        ELSE IF ~ept_info.write_back THEN early(ERR_NOT_SUPPORTED)
        ELSE IF ~ept_info.ept_flags THEN early(ERR_NOT_SUPPORTED)
        ELSE IF ~ept_info.invept THEN early(ERR_NOT_SUPPORTED)
        ELSE IF write /\ locked /\ ~vmxon_set
        THEN [early(ERR_NOT_SUPPORTED) EXCEPT !.msr_read = TRUE]
        ELSE IF cr_is_invalid(cr0_value, read_msr(hw, "CR0_FIXED0"),
                              read_msr(hw, "CR0_FIXED1"))
        THEN [ early(ERR_BAD_STATE) EXCEPT !.feature_control = fc1,
                                           !.msr_read = TRUE,
                                           !.msr_written = write ]
        ELSE IF cr_is_invalid(cr4_1, read_msr(hw, "CR4_FIXED0"),
                              read_msr(hw, "CR4_FIXED1"))
        THEN [ early(ERR_BAD_STATE) EXCEPT !.feature_control = fc1,
                                           !.msr_read = TRUE,
                                           !.msr_written = write ]
        ELSE [ status |-> IF on THEN NO_ERROR ELSE ERR_INTERNAL,
               feature_control |-> fc1, cr4 |-> cr4_1, is_on |-> on,
               vmx_root |-> (in_root \/ on), msr_read |-> TRUE,
               msr_written |-> write, vmxon_executed |-> TRUE ]

\* vmx_enable on a CPU whose capability MSRs are cap and hw:
\* IA32_FEATURE_CONTROL, CR4 and is_on_ as it leaves them, whether the
\* MSR was read and written and whether it executed VMXON, and its status.
\* VMXON fails when the CPU is in VMX operation already, or when the CPU
\* reports a failure.
vmx_enable(cap, fc, cr0_value, cr4_value, hw, in_root, vmxon_ok) ==
    LET vmx_info == VmxInfo(cap.BASIC)
        ept_info == EptInfo(cap.EPT_VPID_CAP)
        misc_info == MiscInfo(cap.MISC)
        early(st) ==
            [ status |-> st, feature_control |-> fc, cr4 |-> cr4_value,
              is_on |-> FALSE, vmx_root |-> in_root, msr_read |-> FALSE,
              msr_written |-> FALSE, vmxon_executed |-> FALSE ]
        locked == X86_MSR_IA32_FEATURE_CONTROL_LOCK \subseteq fc
        vmxon_set == X86_MSR_IA32_FEATURE_CONTROL_VMXON \subseteq fc
        write == ~locked \/ ~vmxon_set
        fc1 == IF write
               THEN fc \cup X86_MSR_IA32_FEATURE_CONTROL_LOCK
                       \cup X86_MSR_IA32_FEATURE_CONTROL_VMXON
               ELSE fc
        cr4_1 == cr4_value \cup X86_CR4_VMXE
        on == ~in_root /\ vmxon_ok
    IN  IF ~vmx_info.io_exit_info THEN early(ERR_NOT_SUPPORTED)
        ELSE IF ~vmx_info.vmx_controls THEN early(ERR_NOT_SUPPORTED)
        ELSE IF ~ept_info.page_walk_4 THEN early(ERR_NOT_SUPPORTED)
        ELSE IF ~ept_info.write_back THEN early(ERR_NOT_SUPPORTED)
        ELSE IF ~ept_info.ept_flags THEN early(ERR_NOT_SUPPORTED)
        ELSE IF ~ept_info.invept THEN early(ERR_NOT_SUPPORTED)
        ELSE IF ~misc_info.wait_for_sipi THEN early(ERR_NOT_SUPPORTED)
        ELSE IF write /\ locked /\ ~vmxon_set
        THEN [early(ERR_NOT_SUPPORTED) EXCEPT !.msr_read = TRUE]
        ELSE IF cr_is_invalid(cr0_value, read_msr(hw, "CR0_FIXED0"),
                              read_msr(hw, "CR0_FIXED1"))
        THEN [ early(ERR_BAD_STATE) EXCEPT !.feature_control = fc1,
                                           !.msr_read = TRUE,
                                           !.msr_written = write ]
        ELSE IF cr_is_invalid(cr4_1, read_msr(hw, "CR4_FIXED0"),
                              read_msr(hw, "CR4_FIXED1"))
        THEN [ early(ERR_BAD_STATE) EXCEPT !.feature_control = fc1,
                                           !.msr_read = TRUE,
                                           !.msr_written = write ]
        ELSE [ status |-> IF on THEN NO_ERROR ELSE ERR_INTERNAL,
               feature_control |-> fc1, cr4 |-> cr4_1, is_on |-> on,
               vmx_root |-> (in_root \/ on), msr_read |-> TRUE,
               msr_written |-> write, vmxon_executed |-> TRUE ]

\* vmx_disable: VMXOFF when is_on_, which leaves VMX operation, then CR4.VMXE
\* is cleared.  Clearing CR4.VMXE while the CPU is in VMX operation raises
\* #GP: the kernel stops (fault).
vmx_disable(is_on, cr4_value, in_root) ==
    LET root == IF is_on THEN FALSE ELSE in_root
    IN  IF root
        THEN [ status |-> NO_ERROR, cr4 |-> cr4_value, vmx_root |-> root,
               fault |-> TRUE ]
        ELSE [ status |-> NO_ERROR, cr4 |-> cr4_value \ X86_CR4_VMXE,
               vmx_root |-> FALSE, fault |-> FALSE ]

\* ------------------------------------------------------------------------
\* The state.

VARIABLES
    msr,            \* the capability MSRs of the CPU
    ints,           \* interrupts are enabled on CPU 0
    cur_vmcs,       \* the current VMCS of CPU 0: "none", "page_", or "other"
                    \* for the VMCS of another guest
    launch_state,   \* launch state of the VMCS region: "clear" or "launched"
    vmcs,           \* the fields of the VMCS region
    ctx,            \* the VmcsContext: "none", "creating" or "alive"
    gpas_size,      \* gpas_->size()
    cr3_,           \* VmcsContext::cr3_
    entry_,         \* VmcsContext::entry_
    do_resume_,     \* VmcsPerCpu::do_resume_
    guest_state,    \* VmxState::guest_state
    last_ok,        \* history: the arguments of the last x86_guest_set_cr3 and
                    \* arch_guest_set_entry that returned NO_ERROR
    serial_fifo,    \* the bytes in the serial FIFO
    fifo_writes,    \* payloads of the FIFO writes made by the running call
    pc,             \* where the worker pinned to CPU 0 is; "idle": no worker
    task,           \* the routine the worker runs
    status,         \* the worker's status variable
    ret,            \* the last API call: its name, argument and return value
    calls,          \* API calls made on the guest context
    assert_failed,  \* a DEBUG_ASSERT of AutoVmcsLoad did not hold
    vmx_cap,        \* IA32_VMX_BASIC, IA32_VMX_EPT_VPID_CAP, IA32_VMX_MISC and
                    \* the VMX feature flag of the CPU
    feature_control,\* the IA32_FEATURE_CONTROL MSR
    cr0,            \* CR0 of CPU 0
    cr4,            \* CR4 of CPU 0
    vmx_root,       \* CPU 0 is in VMX operation
    hyp,            \* the VmxonContext: "none" or "alive"
    is_on_,         \* VmxonPerCpu::is_on_
    pmm,            \* the frame allocator: the frames handed out, and whether
                    \* a frame that was not handed out has been freed
    pa_,            \* VmxPage::pa_ of each VmxPage (0: no frame)
    msr_bitmaps,    \* the contents of msr_bitmaps_page_
    host_msr_page_, \* the MSR list in host_msr_page_
    guest_msr_page_,\* the MSR list in guest_msr_page_
    kernel_gs_base, \* the IA32_KERNEL_GS_BASE MSR of CPU 0
    at_call,        \* history: CR4, IA32_FEATURE_CONTROL and whether the CPU
                    \* was in VMX operation when the last
                    \* arch_hypervisor_create was called, and what its
                    \* vmx_enable did
    dtor_failed,    \* the DEBUG_ASSERT of the last context destructor did not
                    \* hold
    probe,          \* a call of a function on its own: arguments and result
    faults          \* the failures inside destructors that this behaviour
                    \* may meet: "thread_create", "vmclear"

vars ==
    << msr, ints, cur_vmcs, launch_state, vmcs, ctx, gpas_size, cr3_, entry_,
       do_resume_, guest_state, last_ok, serial_fifo, fifo_writes, pc, task,
       status, ret, calls, assert_failed, vmx_cap, feature_control, cr0, cr4,
       vmx_root, hyp, is_on_, pmm, pa_, msr_bitmaps, host_msr_page_,
       guest_msr_page_, kernel_gs_base, at_call, dtor_failed, probe, faults >>

vmxVars == <<vmx_cap, feature_control, cr0, cr4, vmx_root>>
hypVars == <<hyp, is_on_>>
listVars == <<host_msr_page_, guest_msr_page_>>
pageVars == <<pmm, pa_, msr_bitmaps, listVars>>
histVars == <<at_call, dtor_failed>>
lifeVars == <<vmxVars, hypVars, pageVars, histVars, probe>>

hwVars == <<msr, faults, kernel_gs_base>>
cpuVars == <<ints, cur_vmcs, launch_state, vmcs>>
ctxVars == <<ctx, gpas_size, cr3_, entry_, do_resume_, guest_state, last_ok>>
fifoVars == <<serial_fifo, fifo_writes>>
workerVars == <<pc, task, status>>

\* A VMCS region as VmxPage::Alloc(info, 0) fills it.
VmcsZero ==
    [ PROCBASED_CTLS2 |-> {}, PINBASED_CTLS |-> {}, PROCBASED_CTLS |-> {},
      EXIT_CTLS |-> {}, ENTRY_CTLS |-> {}, EXIT_MSR_LOAD_COUNT |-> 0,
      EXIT_MSR_STORE_COUNT |-> 0, ENTRY_MSR_LOAD_COUNT |-> 0, VPID |-> 0,
      HOST_CR0 |-> {},
      HOST_CR4 |-> {}, GUEST_CR0 |-> {}, GUEST_CR4 |-> {},
      GUEST_CR3 |-> Zero64, GUEST_RIP |-> Zero64, EXIT_REASON |-> "EXCEPTION",
      EXIT_QUALIFICATION |-> Zero64, INSTRUCTION_LENGTH |-> U32(0) ]

\* guest_state as memset(&vmx_state_, 0, ...) leaves it.
GuestStateZero == [rax |-> Zero64, rbx |-> Zero64, rcx |-> Zero64, rdx |-> Zero64]

Pending == "PENDING"

\* The guest side before arch_guest_create.
InitGuest ==
    /\ ints = TRUE
    /\ cur_vmcs = "none"
    /\ launch_state = "clear"
    /\ vmcs = VmcsZero
    /\ ctx = "none"
    /\ gpas_size = Zero64
    /\ cr3_ = UINTPTR_MAX
    /\ entry_ = UINTPTR_MAX
    /\ do_resume_ = FALSE
    /\ guest_state = GuestStateZero
    /\ last_ok = [cr3 |-> UINTPTR_MAX, entry |-> UINTPTR_MAX]
    /\ serial_fifo = <<>>
    /\ fifo_writes = <<>>
    /\ pc = "idle"
    /\ task = "none"
    /\ status = NO_ERROR
    /\ ret = [op |-> "none", arg |-> Zero64, status |-> NO_ERROR]
    /\ calls = 0
    /\ assert_failed = FALSE
    /\ msr_bitmaps = FilledPage(0)
    /\ host_msr_page_ = MsrListZero
    /\ guest_msr_page_ = MsrListZero
    /\ kernel_gs_base = UserGsBase
    /\ dtor_failed = FALSE
    /\ probe = [op |-> "none"]

\* The state after arch_hypervisor_create has succeeded on a capable CPU:
\* IA32_FEATURE_CONTROL is locked with VMXON set, CR0 and CR4 satisfy the
\* fixed bits, CR4.VMXE is set, CPU 0 is in VMX operation and the VMXON
\* region holds frame 1.
Init ==
    /\ msr \in Hardware
    /\ faults = {}
    /\ InitGuest
    /\ vmx_cap = CapGood
    /\ feature_control = {0, 2}
    /\ cr0 = {0, 1, 4, 5, 16, 18, 31}
    /\ cr4 = {5, 7, 9, 10} \cup X86_CR4_VMXE \cup msr.CR4_FIXED0
    /\ vmx_root = TRUE
    /\ hyp = "alive"
    /\ is_on_ = TRUE
    /\ pmm = [allocated |-> {1}, bad_free |-> FALSE]
    /\ pa_ = [ p \in VmxonPages \cup VmcsPages \cup EarlierPages |->
                 IF p \in VmxonPages THEN 1 ELSE 0 ]
    /\ at_call = [ cr4 |-> ({5, 7, 9, 10} \cup msr.CR4_FIXED0) \ X86_CR4_VMXE,
                   feature_control |-> {0, 2}, vmx_root |-> FALSE,
                   msr_read |-> TRUE, msr_written |-> FALSE,
                   vmxon_executed |-> TRUE ]

\* ------------------------------------------------------------------------
\* The API.

\* Whether the operation named kind succeeds inside a destructor.
Outcomes(kind) == IF kind \in faults THEN BOOLEAN ELSE {TRUE}

\* VmxonContext::~VmxonContext and the destructor of its VmxonPerCpu, whose
\* page holds the frame pas["vmxon.page_"]: percpu_exec(vmx_disable), whose
\* thread_create may fail, then the VmxPage frees its frame.
VmxonContext_dtor(pm, pas, is_on, cr4_value, in_root, thread_ok) ==
    LET d == vmx_disable(is_on, cr4_value, in_root)
    IN  [ fault |-> thread_ok /\ d.fault,
          status |-> IF thread_ok THEN d.status ELSE ERR_NO_MEMORY,
          cr4 |-> IF thread_ok THEN d.cr4 ELSE cr4_value,
          vmx_root |-> IF thread_ok THEN d.vmx_root ELSE in_root,
          pmm |-> FreePages(pm, pas, VmxonPages) ]

\* The VmxonContext whose page holds the frame pas["vmxon.page_"] is
\* destroyed; a fault stops the kernel where it is.
VmxonContext_destroy(pm, pas, thread_ok) ==
    LET d == VmxonContext_dtor(pm, pas, is_on_, cr4, vmx_root, thread_ok)
    IN  IF d.fault
        THEN /\ pc' = "fault"
             /\ UNCHANGED <<hyp, is_on_, cr4, vmx_root, pmm, pa_, dtor_failed>>
        ELSE /\ pc' = "idle"
             /\ hyp' = "none"
             /\ is_on_' = FALSE
             /\ cr4' = d.cr4
             /\ vmx_root' = d.vmx_root
             /\ pmm' = d.pmm
             /\ pa_' = [p \in DOMAIN pa_ |-> IF p \in VmxonPages THEN 0 ELSE pa_[p]]
             /\ dtor_failed' = (d.status # NO_ERROR)

\* arch_hypervisor_create -> VmxonContext::Create up to percpu_exec(vmx_enable).
\* Without the VMX feature: ERR_NOT_SUPPORTED.  The array or the context is
\* not allocated: ERR_NO_MEMORY.  PerCpu::Init or thread_create fails: the
\* context is destroyed and the status returned.  Otherwise the worker runs
\* vmx_enable.
arch_hypervisor_create ==
    /\ pc = "idle"
    /\ hyp = "none"
    /\ \E how \in {"no_array", "no_context", "no_page", "no_thread", "init"} :
         LET a == VmxPage_Alloc(vmx_info_of[vmx_cap.BASIC], pmm, how # "no_page")
             pas == [pa_ EXCEPT !["vmxon.page_"] = a.pa]
             call == [ op |-> "arch_hypervisor_create", arg |-> Zero64,
                       status |-> Pending ]
         IN  CASE ~vmx_cap.VMX ->
                    /\ ret' = [call EXCEPT !.status = ERR_NOT_SUPPORTED]
                    /\ UNCHANGED << hyp, is_on_, cr4, vmx_root, pmm, pa_,
                                    dtor_failed, workerVars >>
               [] vmx_cap.VMX /\ how \in {"no_array", "no_context"} ->
                    /\ ret' = [call EXCEPT !.status = ERR_NO_MEMORY]
                    /\ UNCHANGED << hyp, is_on_, cr4, vmx_root, pmm, pa_,
                                    dtor_failed, workerVars >>
               [] vmx_cap.VMX /\ (a.status # NO_ERROR \/ how = "no_thread") ->
                    /\ \E thread_ok \in Outcomes("thread_create") :
                         VmxonContext_destroy(a.pmm, pas, thread_ok)
                    /\ ret' = IF pc' = "fault" THEN ret
                              ELSE [ call EXCEPT !.status =
                                       IF a.status # NO_ERROR THEN a.status
                                       ELSE ERR_NO_MEMORY ]
                    /\ UNCHANGED <<task, status>>
               [] OTHER ->
                    /\ pmm' = a.pmm
                    /\ pa_' = pas
                    /\ pc' = "vmx_enable"
                    /\ task' = "vmx_enable"
                    /\ status' = NO_ERROR
                    /\ ret' = call
                    /\ UNCHANGED <<hyp, is_on_, cr4, vmx_root, dtor_failed>>
    /\ at_call' = IF pc' = "fault" THEN at_call
                  ELSE [ cr4 |-> cr4, feature_control |-> feature_control,
                         vmx_root |-> vmx_root, msr_read |-> FALSE,
                         msr_written |-> FALSE, vmxon_executed |-> FALSE ]
    /\ UNCHANGED << vmx_cap, feature_control, cr0, msr_bitmaps, listVars, probe, hwVars,
                    cpuVars, ctxVars, fifoVars, calls, assert_failed >>

\* The worker pinned to CPU 0 runs vmx_enable.
percpu_exec_vmx_enable ==
    /\ pc = "vmx_enable"
    /\ \E vmxon_ok \in BOOLEAN :
         LET r == vmx_enable(vmx_cap, feature_control, cr0, cr4, msr, vmx_root,
                             vmxon_ok)
         IN  /\ feature_control' = r.feature_control
             /\ cr4' = r.cr4
             /\ is_on_' = r.is_on
             /\ vmx_root' = r.vmx_root
             /\ status' = r.status
             /\ at_call' = [ at_call EXCEPT !.msr_read = r.msr_read,
                                            !.msr_written = r.msr_written,
                                            !.vmxon_executed = r.vmxon_executed ]
    /\ pc' = "join"
    /\ UNCHANGED << vmx_cap, cr0, hyp, pageVars, dtor_failed, probe, hwVars,
                    cpuVars, ctxVars, fifoVars, task, ret, calls, assert_failed >>

\* Dropping the hypervisor context: VmxonContext::~VmxonContext.
hypervisor_drop ==
    /\ pc = "idle"
    /\ hyp = "alive"
    /\ \E thread_ok \in Outcomes("thread_create") :
         VmxonContext_destroy(pmm, pa_, thread_ok)
    /\ ret' = IF pc' = "fault" THEN ret
              ELSE [op |-> "hypervisor_drop", arg |-> Zero64, status |-> NO_ERROR]
    /\ UNCHANGED << vmx_cap, feature_control, cr0, msr_bitmaps, listVars, at_call, probe,
                    hwVars, cpuVars, ctxVars, fifoVars, task, status, calls,
                    assert_failed >>

\* The owner of the HypervisorContext keeps it and goes on to call
\* arch_hypervisor_create again: the context, on which VMXON succeeded, is
\* from now on the earlier one, and its page "earlier.page_".
hypervisor_keep ==
    /\ pc = "idle"
    /\ hyp = "alive"
    /\ pa_["earlier.page_"] = 0
    /\ hyp' = "none"
    /\ is_on_' = FALSE
    /\ pa_' = [ pa_ EXCEPT !["earlier.page_"] = pa_["vmxon.page_"],
                           !["vmxon.page_"] = 0 ]
    /\ UNCHANGED << vmxVars, pmm, msr_bitmaps, listVars, histVars, probe,
                    hwVars, cpuVars, ctxVars, fifoVars, workerVars, ret, calls,
                    assert_failed >>

\* Dropping the earlier HypervisorContext: VmxonContext::~VmxonContext on a
\* context whose is_on_ is true.
earlier_hypervisor_drop ==
    /\ pc = "idle"
    /\ pa_["earlier.page_"] # 0
    /\ \E thread_ok \in Outcomes("thread_create") :
         LET pas == [pa_ EXCEPT !["vmxon.page_"] = pa_["earlier.page_"]]
             d == VmxonContext_dtor(pmm, pas, TRUE, cr4, vmx_root, thread_ok)
         IN  IF d.fault
             THEN /\ pc' = "fault"
                  /\ UNCHANGED <<cr4, vmx_root, pmm, pa_, dtor_failed, ret>>
             ELSE /\ pc' = "idle"
                  /\ cr4' = d.cr4
                  /\ vmx_root' = d.vmx_root
                  /\ pmm' = d.pmm
                  /\ pa_' = [pa_ EXCEPT !["earlier.page_"] = 0]
                  /\ dtor_failed' = (d.status # NO_ERROR)
                  /\ ret' = [ op |-> "hypervisor_drop", arg |-> Zero64,
                              status |-> NO_ERROR ]
    /\ UNCHANGED << vmx_cap, feature_control, cr0, hypVars, msr_bitmaps,
                    listVars, at_call, probe, hwVars, cpuVars, ctxVars,
                    fifoVars, task, status, calls, assert_failed >>

\* VmcsContext::~VmcsContext and the destructors of its members, on a
\* context whose pages hold the frames pas: percpu_exec(vmcs_clear), whose
\* thread_create may fail, runs VMCLEAR when page_ is allocated; then every
\* VmxPage frees its frame.  VMCLEAR outside VMX operation raises #UD: the
\* kernel stops (fault).
VmcsContext_dtor(pm, pas, cur, launch, in_root, thread_ok, vmclear_ok) ==
    LET clear_called == thread_ok /\ pas["vmcs.page_"] # 0
        cleared == clear_called /\ in_root /\ vmclear_ok
        st == IF ~thread_ok THEN ERR_NO_MEMORY
              ELSE IF clear_called /\ ~vmclear_ok THEN ERR_INTERNAL
              ELSE NO_ERROR
    IN  [ fault |-> clear_called /\ ~in_root,
          status |-> st,
          cur_vmcs |-> IF cleared THEN "none" ELSE cur,
          launch_state |-> IF cleared THEN "clear" ELSE launch,
          pmm |-> FreePages(pm, pas, VmcsPages) ]

\* The VmcsContext whose pages hold the frames pas is destroyed, and its
\* fields and pages with it; a fault stops the kernel where it is.
VmcsContext_destroy(pm, pas, thread_ok, vmclear_ok) ==
    LET d == VmcsContext_dtor(pm, pas, cur_vmcs, launch_state, vmx_root,
                              thread_ok, vmclear_ok)
    IN  IF d.fault
        THEN /\ pc' = "fault"
             /\ UNCHANGED << ctxVars, vmcs, msr_bitmaps, listVars, pmm, pa_, cur_vmcs,
                             launch_state, dtor_failed >>
        ELSE /\ pc' = "idle"
             /\ ctx' = "none"
             /\ gpas_size' = Zero64
             /\ cr3_' = UINTPTR_MAX
             /\ entry_' = UINTPTR_MAX
             /\ do_resume_' = FALSE
             /\ guest_state' = GuestStateZero
             /\ last_ok' = [cr3 |-> UINTPTR_MAX, entry |-> UINTPTR_MAX]
             /\ vmcs' = VmcsZero
             /\ msr_bitmaps' = FilledPage(0)
             /\ host_msr_page_' = MsrListZero
             /\ guest_msr_page_' = MsrListZero
             /\ pmm' = d.pmm
             /\ pa_' = [p \in DOMAIN pa_ |-> IF p \in VmcsPages THEN 0 ELSE pa_[p]]
             /\ cur_vmcs' = d.cur_vmcs
             /\ launch_state' = d.launch_state
             /\ dtor_failed' = (d.status # NO_ERROR)

\* arch_guest_create -> VmcsContext::Create up to percpu_exec(vmcs_setup).
\* The array or the context is not allocated: ERR_NO_MEMORY.
\* GuestPhysicalAddressSpace::Create, VmcsPerCpu::Init or thread_create
\* fails: the context is destroyed and the status returned.  Otherwise the
\* context is built (cr3_ and entry_ hold UINTPTR_MAX, do_resume_ is false,
\* VmcsPerCpu::Init fills the pages and zeroes the guest registers) and the
\* worker runs vmcs_setup.
arch_guest_create ==
    /\ pc = "idle"
    /\ ctx = "none"
    /\ \E how \in {"no_array", "no_gpas", "init", "no_thread"}, fail_at \in 0 .. 4 :
         LET r == VmcsPerCpu_Init(vmx_info_of[vmx_cap.BASIC], pmm, fail_at)
             Returns(st) ==
                 ret' = IF pc' = "fault" THEN ret
                        ELSE [ op |-> "arch_guest_create", arg |-> Zero64,
                               status |-> st ]
             ContextKept == UNCHANGED <<ints, task, status>>
         IN  CASE how = "no_array" ->
                    /\ fail_at = 0
                    /\ UNCHANGED << cpuVars, ctxVars, workerVars, pageVars,
                                    dtor_failed >>
                    /\ Returns(ERR_NO_MEMORY)
               [] how = "no_gpas" ->
                    /\ fail_at = 0
                    /\ \E thread_ok \in Outcomes("thread_create") :
                         VmcsContext_destroy(pmm, pa_, thread_ok, TRUE)
                    /\ Returns(ERR_NO_MEMORY)
                    /\ ContextKept
               [] how = "init" /\ r.status # NO_ERROR ->
                    /\ \E thread_ok \in Outcomes("thread_create"),
                          vmclear_ok \in Outcomes("vmclear") :
                         VmcsContext_destroy(r.pmm, r.pa @@ pa_, thread_ok,
                                             vmclear_ok)
                    /\ Returns(r.status)
                    /\ ContextKept
               [] how = "no_thread" /\ fail_at = 0 /\ r.status = NO_ERROR ->
                    /\ \E thread_ok \in Outcomes("thread_create"),
                          vmclear_ok \in Outcomes("vmclear") :
                         VmcsContext_destroy(r.pmm, r.pa @@ pa_, thread_ok,
                                             vmclear_ok)
                    /\ Returns(ERR_NO_MEMORY)
                    /\ ContextKept
               [] how = "init" /\ r.status = NO_ERROR ->
                    /\ ctx' = "creating"
                    /\ cr3_' = UINTPTR_MAX
                    /\ entry_' = UINTPTR_MAX
                    /\ do_resume_' = FALSE
                    /\ guest_state' = GuestStateZero
                    /\ last_ok' = [cr3 |-> UINTPTR_MAX, entry |-> UINTPTR_MAX]
                    /\ vmcs' = VmcsZero
                    /\ pmm' = r.pmm
                    /\ pa_' = r.pa @@ pa_
                    /\ msr_bitmaps' = FilledPage(255)
                    /\ host_msr_page_' = MsrListZero
                    /\ guest_msr_page_' = MsrListZero
                    /\ pc' = "setup_clear"
                    /\ task' = "vmcs_setup"
                    /\ status' = NO_ERROR
                    /\ Returns(Pending)
                    /\ \E size \in GuestSizes : gpas_size' = size
                    /\ UNCHANGED <<ints, cur_vmcs, launch_state, dtor_failed>>
               [] OTHER -> FALSE
    /\ UNCHANGED << vmxVars, hypVars, at_call, probe, hwVars, fifoVars, calls,
                    assert_failed >>

\* Dropping the GuestContext: VmcsContext::~VmcsContext.
guest_drop ==
    /\ pc = "idle"
    /\ ctx = "alive"
    /\ \E thread_ok \in Outcomes("thread_create"),
          vmclear_ok \in Outcomes("vmclear") :
         VmcsContext_destroy(pmm, pa_, thread_ok, vmclear_ok)
    /\ ret' = IF pc' = "fault" THEN ret
              ELSE [op |-> "guest_drop", arg |-> Zero64, status |-> NO_ERROR]
    /\ UNCHANGED << vmxVars, hypVars, at_call, probe, hwVars, fifoVars, calls,
                    assert_failed, ints, task, status >>

\* x86_guest_set_cr3 -> VmcsContext::set_cr3.
x86_guest_set_cr3 ==
    /\ pc = "idle"
    /\ ctx = "alive"
    /\ calls < MaxCalls
    /\ \E guest_cr3 \in Cr3Inputs(gpas_size) :
         LET r == set_cr3(guest_cr3, gpas_size, cr3_)
         IN  /\ cr3_' = r.cr3
             /\ last_ok' = IF r.status = NO_ERROR
                           THEN [last_ok EXCEPT !.cr3 = guest_cr3] ELSE last_ok
             /\ ret' = [op |-> "x86_guest_set_cr3", arg |-> guest_cr3,
                        status |-> r.status]
    /\ calls' = calls + 1
    /\ UNCHANGED << lifeVars, hwVars, cpuVars, ctx, gpas_size, entry_, do_resume_,
                    guest_state, fifoVars, workerVars, assert_failed >>

\* arch_guest_set_entry -> VmcsContext::set_entry.
arch_guest_set_entry ==
    /\ pc = "idle"
    /\ ctx = "alive"
    /\ calls < MaxCalls
    /\ \E guest_entry \in EntryInputs(gpas_size) :
         LET r == set_entry(guest_entry, gpas_size, entry_)
         IN  /\ entry_' = r.entry
             /\ last_ok' = IF r.status = NO_ERROR
                           THEN [last_ok EXCEPT !.entry = guest_entry] ELSE last_ok
             /\ ret' = [op |-> "arch_guest_set_entry", arg |-> guest_entry,
                        status |-> r.status]
    /\ calls' = calls + 1
    /\ UNCHANGED << lifeVars, hwVars, cpuVars, ctx, gpas_size, cr3_, do_resume_,
                    guest_state, fifoVars, workerVars, assert_failed >>

\* arch_guest_enter -> VmcsContext::Enter: ERR_BAD_STATE without a worker, or
\* percpu_exec(vmcs_launch), whose thread_create may fail.
arch_guest_enter ==
    /\ pc = "idle"
    /\ ctx = "alive"
    /\ calls < MaxCalls
    /\ calls' = calls + 1
    /\ LET s == Enter_check(cr3_, entry_)
       IN  IF s # NO_ERROR
           THEN /\ ret' = [op |-> "arch_guest_enter", arg |-> Zero64, status |-> s]
                /\ UNCHANGED <<workerVars, fifo_writes>>
           ELSE \E thread_ok \in BOOLEAN :
                  IF thread_ok
                  THEN /\ pc' = "load_disable"
                       /\ task' = "vmcs_launch"
                       /\ status' = NO_ERROR
                       /\ fifo_writes' = <<>>
                       /\ ret' = [ op |-> "arch_guest_enter", arg |-> Zero64,
                                   status |-> Pending ]
                  ELSE /\ ret' = [ op |-> "arch_guest_enter", arg |-> Zero64,
                                   status |-> ERR_NO_MEMORY ]
                       /\ UNCHANGED <<workerVars, fifo_writes>>
    /\ UNCHANGED <<lifeVars, hwVars, cpuVars, ctxVars, serial_fifo, assert_failed>>

\* ------------------------------------------------------------------------
\* The worker pinned to CPU 0.

\* VmcsPerCpu::Setup, its call of Clear: VMCLEAR reports success or failure.
\* Outside VMX operation VMCLEAR raises #UD: the kernel stops.
VmcsPerCpu_Clear ==
    /\ pc = "setup_clear"
    /\ \E vmclear_ok \in BOOLEAN :
         IF ~vmx_root
         THEN /\ pc' = "fault"
              /\ UNCHANGED <<status, launch_state>>
         ELSE IF vmclear_ok
         THEN /\ launch_state' = "clear"
              /\ pc' = "load_disable"
              /\ UNCHANGED status
         ELSE /\ status' = ERR_INTERNAL
              /\ pc' = "join"
              /\ UNCHANGED launch_state
    /\ UNCHANGED << lifeVars, hwVars, ints, cur_vmcs, vmcs, ctxVars, fifoVars, task, ret,
                    calls, assert_failed >>

\* AutoVmcsLoad::AutoVmcsLoad, up to arch_disable_ints.
AutoVmcsLoad_disable_ints ==
    /\ pc = "load_disable"
    /\ assert_failed' = (assert_failed \/ ~ints)
    /\ ints' = FALSE
    /\ pc' = "load_vmptrld"
    /\ UNCHANGED << lifeVars, hwVars, cur_vmcs, launch_state, vmcs, ctxVars, fifoVars,
                    task, status, ret, calls >>

\* AutoVmcsLoad::AutoVmcsLoad, its VMPTRLD, which raises #UD outside VMX
\* operation.
AutoVmcsLoad_vmptrld ==
    /\ pc = "load_vmptrld"
    /\ IF ~vmx_root
       THEN /\ pc' = "fault"
            /\ UNCHANGED cur_vmcs
       ELSE /\ cur_vmcs' = "page_"
            /\ pc' = IF task = "vmcs_setup" THEN "setup" ELSE "enter"
    /\ UNCHANGED << lifeVars, hwVars, ints, launch_state, vmcs, ctxVars, fifoVars, task,
                    status, ret, calls, assert_failed >>

\* Variant of AutoVmcsLoad_dtor that leaves interrupts disabled.
AutoVmcsLoad_dtor_keeps_ints_off ==
    /\ pc = "release"
    /\ pc' = "join"
    /\ UNCHANGED << lifeVars, hwVars, ints, cur_vmcs, launch_state, vmcs, ctxVars, fifoVars,
                    task, status, ret, calls, assert_failed >>

\* AutoVmcsLoad::~AutoVmcsLoad.
AutoVmcsLoad_dtor ==
    /\ pc = "release"
    /\ assert_failed' = (assert_failed \/ ints)
    /\ ints' = TRUE
    /\ pc' = "join"
    /\ UNCHANGED << lifeVars, hwVars, cur_vmcs, launch_state, vmcs, ctxVars, fifoVars,
                    task, status, ret, calls >>

\* VmcsPerCpu::Setup from its first set_vmcs_control to its return.
VmcsPerCpu_Setup ==
    /\ pc = "setup"
    /\ LET r == Setup(vmcs, msr_bitmaps, host_msr_page_, guest_msr_page_, msr,
                       [cpu_num |-> 0, cr0 |-> cr0, cr4 |-> cr4])
       IN  /\ vmcs' = r.vmcs
           /\ msr_bitmaps' = r.msr_bitmaps
           /\ host_msr_page_' = r.host_msr_page
           /\ guest_msr_page_' = r.guest_msr_page
           /\ status' = r.status
    /\ pc' = "release"
    /\ UNCHANGED << vmxVars, hypVars, pmm, pa_, histVars, probe, hwVars, ints,
                    cur_vmcs, launch_state, ctxVars, fifoVars, task, ret, calls,
                    assert_failed >>

\* Variant of VmcsPerCpu_Enter that programs GUEST_CR3 and GUEST_RIP on
\* every entry.
VmcsPerCpu_Enter_always_programs ==
    /\ pc = "enter"
    /\ vmcs' = [vmcs EXCEPT !.GUEST_CR3 = cr3_, !.GUEST_RIP = entry_]
    /\ host_msr_page_' =
           edit_msr_list(host_msr_page_, 3, X86_MSR_IA32_KERNEL_GS_BASE,
                         kernel_gs_base)
    /\ pc' = "vmx_enter"
    /\ UNCHANGED << vmxVars, hypVars, pmm, pa_, msr_bitmaps, guest_msr_page_,
                    histVars, probe, hwVars, ints, cur_vmcs, launch_state,
                    ctxVars, fifoVars, task, status, ret, calls, assert_failed >>

\* Variant of VmcsPerCpu_Enter that leaves index 3 of the host MSR list as
\* the last Enter wrote it.
VmcsPerCpu_Enter_keeps_index_3 ==
    /\ pc = "enter"
    /\ vmcs' = IF do_resume_ THEN vmcs
               ELSE [vmcs EXCEPT !.GUEST_CR3 = cr3_, !.GUEST_RIP = entry_]
    /\ host_msr_page_' =
           IF 3 \in DOMAIN host_msr_page_.entries THEN host_msr_page_
           ELSE edit_msr_list(host_msr_page_, 3, X86_MSR_IA32_KERNEL_GS_BASE,
                              kernel_gs_base)
    /\ pc' = "vmx_enter"
    /\ UNCHANGED << vmxVars, hypVars, pmm, pa_, msr_bitmaps, guest_msr_page_,
                    histVars, probe, hwVars, ints, cur_vmcs, launch_state,
                    ctxVars, fifoVars, task, status, ret, calls, assert_failed >>

\* VmcsPerCpu::Enter from the VMCS load to the call of vmx_enter.
VmcsPerCpu_Enter ==
    /\ pc = "enter"
    /\ vmcs' = IF do_resume_ THEN vmcs
               ELSE [vmcs EXCEPT !.GUEST_CR3 = cr3_, !.GUEST_RIP = entry_]
    /\ host_msr_page_' =
           edit_msr_list(host_msr_page_, 3, X86_MSR_IA32_KERNEL_GS_BASE,
                         kernel_gs_base)
    /\ pc' = "vmx_enter"
    /\ UNCHANGED << vmxVars, hypVars, pmm, pa_, msr_bitmaps, guest_msr_page_,
                    histVars, probe, hwVars, ints, cur_vmcs, launch_state,
                    ctxVars, fifoVars, task, status, ret, calls, assert_failed >>

\* vmx_enter reports failure of VMLAUNCH or VMRESUME: Enter reads
\* VM_INSTRUCTION_ERROR and returns the status.
vmx_enter_fail ==
    /\ pc = "vmx_enter"
    /\ LET r == Enter_result(ERR_INTERNAL, do_resume_, NO_ERROR)
       IN  /\ do_resume_' = r.do_resume
           /\ status' = r.status
    /\ pc' = "release"
    /\ UNCHANGED << lifeVars, hwVars, cpuVars, ctx, gpas_size, cr3_, entry_, guest_state,
                    last_ok, fifoVars, task, ret, calls, assert_failed >>

\* The VM-exit MSR-store area after a VM exit: the CPU stores the guest's
\* IA32_KERNEL_GS_BASE in the entries that name it among the first count.
ExitMsrStore(list, count, guest_value) ==
    [ list EXCEPT !.entries =
        [ i \in DOMAIN list.entries |->
            IF i < count /\ list.entries[i].msr = X86_MSR_IA32_KERNEL_GS_BASE
            THEN [list.entries[i] EXCEPT !.value = guest_value]
            ELSE list.entries[i] ] ]

\* IA32_KERNEL_GS_BASE after a VM exit: the value of the entry that names it
\* among the first count of the VM-exit MSR-load area, or what the guest left
\* in the MSR when no entry names it.
ExitMsrLoad(list, count, guest_value) ==
    LET named == { i \in DOMAIN list.entries :
                     /\ i < count
                     /\ list.entries[i].msr = X86_MSR_IA32_KERNEL_GS_BASE }
    IN  IF named = {} THEN guest_value
        ELSE list.entries[CHOOSE i \in named : \A j \in named : j <= i].value

\* vmx_enter succeeds: VMLAUNCH on a clear VMCS or VMRESUME on a launched
\* one, the guest runs and exits; the CPU stores the exit information and
\* the guest RIP in the VMCS, stores the guest's MSRs and loads the host's
\* from the MSR lists, and the trampoline stores the guest registers.
vmx_enter_exit ==
    /\ pc = "vmx_enter"
    /\ launch_state = IF do_resume_ THEN "launched" ELSE "clear"
    /\ \E x \in GuestExits :
         /\ vmcs' = [ vmcs EXCEPT !.EXIT_REASON = x.exit_reason,
                                  !.EXIT_QUALIFICATION = x.exit_qualification,
                                  !.INSTRUCTION_LENGTH = x.instruction_length,
                                  !.GUEST_RIP = x.guest_rip ]
         /\ guest_state' = x.guest_state
         /\ guest_msr_page_' =
                ExitMsrStore(guest_msr_page_, vmcs.EXIT_MSR_STORE_COUNT,
                             x.kernel_gs_base)
         /\ kernel_gs_base' =
                ExitMsrLoad(host_msr_page_, vmcs.EXIT_MSR_LOAD_COUNT,
                            x.kernel_gs_base)
    /\ launch_state' = "launched"
    /\ status' = NO_ERROR
    /\ pc' = "vmexit"
    /\ UNCHANGED << vmxVars, hypVars, pmm, pa_, msr_bitmaps, host_msr_page_,
                    histVars, probe, msr, faults, ints, cur_vmcs, ctx,
                    gpas_size, cr3_, entry_, do_resume_, last_ok, fifoVars,
                    task, ret, calls, assert_failed >>

\* VmcsPerCpu::Enter after a successful vmx_enter: do_resume_ = true, then
\* vmexit_handler.  The EXTERNAL_INTERRUPT case stops after arch_enable_ints.
Enter_vmexit_handler ==
    /\ pc = "vmexit"
    /\ \E accepts \in BOOLEAN :
         LET r == vmexit_handler(ExitInfo(vmcs), guest_state, vmcs, serial_fifo,
                                 accepts)
             e == Enter_result(status, do_resume_, r.status)
         IN  /\ do_resume_' = e.do_resume
             /\ guest_state' = r.guest_state
             /\ vmcs' = r.vmcs
             /\ serial_fifo' = r.fifo
             /\ fifo_writes' = fifo_writes \o r.writes
             /\ status' = e.status
             /\ ints' = r.window
             /\ pc' = IF r.window THEN "extint_window" ELSE "release"
    /\ UNCHANGED << lifeVars, hwVars, cur_vmcs, launch_state, ctx, gpas_size, cr3_, entry_,
                    last_ok, task, ret, calls, assert_failed >>

\* Between arch_enable_ints and arch_disable_ints of the EXTERNAL_INTERRUPT
\* case the worker of another guest, pinned to the same CPU, runs and loads
\* its VMCS.
other_worker_vmptrld ==
    /\ pc = "extint_window"
    /\ ints
    /\ cur_vmcs = "page_"
    /\ cur_vmcs' = "other"
    /\ UNCHANGED << lifeVars, hwVars, ints, launch_state, vmcs, ctxVars, fifoVars,
                    pc, task, status, ret, calls, assert_failed >>

\* Variant of extint_disable_ints that advances GUEST_RIP after the window.
extint_disable_ints_then_next_rip ==
    /\ pc = "extint_window"
    /\ ints' = FALSE
    /\ pc' = "release"
    /\ vmcs' = [vmcs EXCEPT !.GUEST_RIP = next_rip(ExitInfo(vmcs))]
    /\ UNCHANGED << lifeVars, hwVars, cur_vmcs, launch_state, ctxVars, fifoVars,
                    task, status, ret, calls, assert_failed >>

\* The EXTERNAL_INTERRUPT case, its arch_disable_ints and return.
extint_disable_ints ==
    /\ pc = "extint_window"
    /\ ints' = FALSE
    /\ pc' = "release"
    /\ UNCHANGED << lifeVars, hwVars, cur_vmcs, launch_state, vmcs, ctxVars, fifoVars,
                    task, status, ret, calls, assert_failed >>

\* percpu_exec, its thread_join: the API call returns the worker's status.  A
\* VmcsContext::Create whose vmcs_setup failed, and a VmxonContext::Create
\* whose vmx_enable failed, destroy the context before they return.
percpu_exec_join ==
    /\ pc = "join"
    /\ CASE task = "vmcs_setup" /\ status # NO_ERROR ->
           /\ \E thread_ok \in Outcomes("thread_create"),
                 vmclear_ok \in Outcomes("vmclear") :
                VmcsContext_destroy(pmm, pa_, thread_ok, vmclear_ok)
           /\ UNCHANGED <<cr4, vmx_root, is_on_, hyp>>
      [] task = "vmcs_setup" /\ status = NO_ERROR ->
           /\ ctx' = "alive"
           /\ pc' = "idle"
           /\ UNCHANGED << gpas_size, cr3_, entry_, do_resume_, guest_state,
                           last_ok, vmcs, msr_bitmaps, listVars, cur_vmcs, launch_state,
                           pmm, pa_, dtor_failed, cr4, vmx_root, is_on_, hyp >>
      [] task = "vmx_enable" /\ status # NO_ERROR ->
           /\ \E thread_ok \in Outcomes("thread_create") :
                VmxonContext_destroy(pmm, pa_, thread_ok)
           /\ UNCHANGED <<ctxVars, vmcs, msr_bitmaps, listVars, cur_vmcs, launch_state>>
      [] task = "vmx_enable" /\ status = NO_ERROR ->
           /\ hyp' = "alive"
           /\ pc' = "idle"
           /\ UNCHANGED << ctxVars, vmcs, msr_bitmaps, listVars, cur_vmcs, launch_state,
                           pmm, pa_, dtor_failed, cr4, vmx_root, is_on_ >>
      [] OTHER ->
           /\ pc' = "idle"
           /\ UNCHANGED << ctxVars, vmcs, msr_bitmaps, listVars, cur_vmcs, launch_state,
                           pmm, pa_, dtor_failed, cr4, vmx_root, is_on_, hyp >>
    /\ ret' = IF pc' = "fault" THEN ret ELSE [ret EXCEPT !.status = status]
    /\ task' = IF pc' = "fault" THEN task ELSE "none"
    /\ UNCHANGED << vmx_cap, feature_control, cr0, at_call, probe, hwVars, ints,
                    fifoVars, status, calls, assert_failed >>

\* ------------------------------------------------------------------------
\* Functions called on their own.

\* The bits of a control that the calls below vary.
CtlBits == {0, 15, 31}

\* The largest CPU number the per-CPU record carries.
MaxCpuNum == 255

\* Calls of set_vmcs_control: every capability MSR over CtlBits in which the
\* bits that must be 1 are among the bits that may be 1, with every old MSR,
\* set mask and clear mask over CtlBits; and the five calls of Setup on each
\* CPU of the model.
ControlCalls ==
    { [ controls |-> "PINBASED_CTLS", true_msr |-> CtlMsr(a0, a1), old_msr |-> o,
        set |-> st, clear |-> cl ] :
        a0 \in SUBSET CtlBits, a1 \in SUBSET CtlBits, o \in SUBSET CtlBits,
        st \in SUBSET CtlBits, cl \in SUBSET CtlBits }
    \cup { SetupControls(hw)[i] : hw \in Hardware, i \in 1 .. 5 }

\* A CPU on which Setup succeeds.
HwCapable ==
    CHOOSE hw \in Hardware :
        Setup(VmcsZero, FilledPage(255), MsrListZero, MsrListZero, hw,
              [cpu_num |-> 0, cr0 |-> {}, cr4 |-> {}]).status = NO_ERROR

\* set_vmcs_control is called on a VMCS whose fields are zero.
call_set_vmcs_control ==
    /\ probe.op = "none"
    /\ \E c \in ControlCalls :
         /\ {b \in c.true_msr : b <= 31}
                \subseteq {b - 32 : b \in {x \in c.true_msr : x >= 32}}
         /\ LET r == set_vmcs_control(c.controls, c.true_msr, c.old_msr, c.set,
                                      c.clear)
            IN  probe' = [ op |-> "set_vmcs_control", args |-> c, result |-> r,
                           vmcs |-> IF r.written
                                    THEN [VmcsZero EXCEPT ![r.field] = r.value]
                                    ELSE VmcsZero ]
    /\ UNCHANGED << hwVars, cpuVars, ctxVars, fifoVars, workerVars, ret, calls,
                    assert_failed, vmxVars, hypVars, pageVars, histVars >>

\* VmcsPerCpu::Setup is called on the CPU numbered cpu_num.
call_Setup ==
    /\ probe.op = "none"
    /\ \E cpu_num \in 0 .. MaxCpuNum :
         LET r == Setup(VmcsZero, FilledPage(255), MsrListZero, MsrListZero, HwCapable,
                        [cpu_num |-> cpu_num, cr0 |-> cr0, cr4 |-> cr4])
         IN  probe' = [ op |-> "Setup", args |-> cpu_num, result |-> r.status,
                        vmcs |-> r.vmcs ]
    /\ UNCHANGED << hwVars, cpuVars, ctxVars, fifoVars, workerVars, ret, calls,
                    assert_failed, vmxVars, hypVars, pageVars, histVars >>

\* Exit qualifications given to IoInfo: every value of bits 5:0, four ports,
\* and the bits the decoding ignores (63:32 and 15:6) clear or set.
PureQualifications ==
    { [ fields |-> [size1 |-> s, input |-> i, string |-> st, repeat |-> r,
                    port |-> p],
        qualification |->
            LET low == s + (IF i THEN 8 ELSE 0) + (IF st THEN 16 ELSE 0)
                       + (IF r THEN 32 ELSE 0)
                pad == IF hi THEN 255 ELSE 0
            IN  << low + (IF hi THEN 192 ELSE 0), pad, p % 256, p \div 256,
                   pad, pad, pad, pad >> ] :
        s \in 0 .. 7, i \in BOOLEAN, st \in BOOLEAN, r \in BOOLEAN,
        p \in {0, 96, kUartIoPort, 65535}, hi \in BOOLEAN }

\* IoInfo is called on an exit qualification, and the IO_INSTRUCTION case of
\* vmexit_handler on an exit that carries it, with rax = 0x4948474645444342
\* and an empty FIFO.
call_IoInfo ==
    /\ probe.op = "none"
    /\ \E q \in PureQualifications, accepts \in BOOLEAN :
         LET x == [ exit_reason |-> "IO_INSTRUCTION",
                    exit_qualification |-> q.qualification,
                    instruction_length |-> U32(1), guest_rip |-> U64(4096) ]
             g == [GuestStateZero EXCEPT !.rax = <<66, 67, 68, 69, 70, 71, 72, 73>>]
             r == handle_io(x, g, VmcsZero, <<>>, accepts)
         IN  probe' = [ op |-> "IoInfo", args |-> q,
                        result |-> IoInfo(q.qualification),
                        writes |-> r.writes ]
    /\ UNCHANGED << hwVars, cpuVars, ctxVars, fifoVars, workerVars, ret, calls,
                    assert_failed, vmxVars, hypVars, pageVars, histVars >>

\* The thread that made the guest and entered it hands it to another user
\* thread, which makes the calls that follow: IA32_KERNEL_GS_BASE holds its
\* GS base.
user_thread_switch ==
    /\ pc = "idle"
    /\ do_resume_
    /\ calls < MaxCalls
    /\ kernel_gs_base = UserGsBase
    /\ kernel_gs_base' \in UserGsBases \ {kernel_gs_base}
    /\ UNCHANGED << lifeVars, msr, faults, cpuVars, ctxVars, fifoVars,
                    workerVars, ret, calls, assert_failed >>

Next ==
    \/ arch_guest_create
    \/ x86_guest_set_cr3
    \/ arch_guest_set_entry
    \/ arch_guest_enter
    \/ VmcsPerCpu_Clear
    \/ AutoVmcsLoad_disable_ints
    \/ AutoVmcsLoad_vmptrld
    \/ AutoVmcsLoad_dtor
    \/ VmcsPerCpu_Setup
    \/ VmcsPerCpu_Enter
    \/ vmx_enter_fail
    \/ vmx_enter_exit
    \/ Enter_vmexit_handler
    \/ extint_disable_ints
    \/ percpu_exec_join

Spec == Init /\ [][Next]_vars

\* The functions called on their own, on the CPU HwCapable after
\* arch_hypervisor_create has succeeded.
InitPure ==
    /\ Init
    /\ msr = HwCapable

NextPure ==
    \/ call_set_vmcs_control
    \/ call_Setup
    \/ call_IoInfo

SpecPure == InitPure /\ [][NextPure]_vars

\* vmx_enter_exit for a guest that executes no I/O instruction.
vmx_enter_exit_without_io ==
    /\ vmx_enter_exit
    /\ vmcs'.EXIT_REASON # "IO_INSTRUCTION"

\* The guest API on the CPU HwCapable, called by two user threads one after
\* the other, for a guest that executes no I/O instruction, beside the worker
\* of another guest.
InitMsr ==
    /\ Init
    /\ msr = HwCapable

NextMsr ==
    \/ user_thread_switch
    \/ arch_guest_create
    \/ x86_guest_set_cr3
    \/ arch_guest_set_entry
    \/ arch_guest_enter
    \/ VmcsPerCpu_Clear
    \/ AutoVmcsLoad_disable_ints
    \/ AutoVmcsLoad_vmptrld
    \/ AutoVmcsLoad_dtor
    \/ VmcsPerCpu_Setup
    \/ VmcsPerCpu_Enter
    \/ vmx_enter_fail
    \/ vmx_enter_exit_without_io
    \/ Enter_vmexit_handler
    \/ other_worker_vmptrld
    \/ extint_disable_ints
    \/ percpu_exec_join

SpecMsr == InitMsr /\ [][NextMsr]_vars

\* The CPUs of the life cycle: on each, every set_vmcs_control of Setup
\* succeeds; they differ in IA32_VMX_CR0_FIXED0 and IA32_VMX_CR4_FIXED0.
HardwareLife ==
    { [HwCapable EXCEPT !.CR0_FIXED0 = f0, !.CR4_FIXED0 = f4] :
        f0 \in MsrChoices.CR0_FIXED0, f4 \in MsrChoices.CR4_FIXED0 }

\* The life cycle of the contexts, from boot: no context exists, the CPU is
\* not in VMX operation, CR4.VMXE is clear and no frame is handed out.
InitLife ==
    /\ msr \in HardwareLife
    /\ faults = {"thread_create", "vmclear"}
    /\ InitGuest
    /\ vmx_cap \in VmxCaps
    /\ feature_control \in FeatureControls
    /\ cr0 \in HostCr0s
    /\ cr4 \in HostCr4s
    /\ vmx_root = FALSE
    /\ hyp = "none"
    /\ is_on_ = FALSE
    /\ pmm = [allocated |-> {}, bad_free |-> FALSE]
    /\ pa_ = [p \in VmxonPages \cup VmcsPages \cup EarlierPages |-> 0]
    /\ at_call = [ cr4 |-> cr4, feature_control |-> feature_control,
                   vmx_root |-> FALSE, msr_read |-> FALSE,
                   msr_written |-> FALSE, vmxon_executed |-> FALSE ]

NextLife ==
    \/ arch_hypervisor_create
    \/ percpu_exec_vmx_enable
    \/ hypervisor_drop
    \/ arch_guest_create
    \/ VmcsPerCpu_Clear
    \/ AutoVmcsLoad_disable_ints
    \/ AutoVmcsLoad_vmptrld
    \/ VmcsPerCpu_Setup
    \/ AutoVmcsLoad_dtor
    \/ percpu_exec_join
    \/ guest_drop

SpecLife == InitLife /\ [][NextLife]_vars

\* The life cycle of hypervisor contexts whose owner may hold one while it
\* makes another, on the CPU HwCapable, with no failure inside a destructor.
InitTwo ==
    /\ msr = HwCapable
    /\ faults = {}
    /\ InitGuest
    /\ vmx_cap \in VmxCaps
    /\ feature_control \in FeatureControls
    /\ cr0 \in HostCr0s
    /\ cr4 \in HostCr4s
    /\ vmx_root = FALSE
    /\ hyp = "none"
    /\ is_on_ = FALSE
    /\ pmm = [allocated |-> {}, bad_free |-> FALSE]
    /\ pa_ = [p \in VmxonPages \cup VmcsPages \cup EarlierPages |-> 0]
    /\ at_call = [ cr4 |-> cr4, feature_control |-> feature_control,
                   vmx_root |-> FALSE, msr_read |-> FALSE,
                   msr_written |-> FALSE, vmxon_executed |-> FALSE ]

NextTwo ==
    \/ arch_hypervisor_create
    \/ percpu_exec_vmx_enable
    \/ percpu_exec_join
    \/ hypervisor_drop
    \/ hypervisor_keep
    \/ earlier_hypervisor_drop

SpecTwo == InitTwo /\ [][NextTwo]_vars

\* ------------------------------------------------------------------------
\* Properties.

\* The step is the API call op being made.
IsCall(op) == calls' = calls + 1 /\ ret'.op = op

\* The worker's status reaches the caller: the scoped release keeps it and
\* thread_join hands it to the API call, which returns it.
StatusIsReturned ==
    /\ pc = "release" => status' = status
    /\ pc = "join" => ret'.status = status /\ pc' = "idle"

\* The exit information the CPU stored for the exit being handled.
ExitRip == Add64(vmcs.GUEST_RIP, ZeroExt(vmcs.INSTRUCTION_LENGTH))
QualBytes == (vmcs.EXIT_QUALIFICATION[1] % 8) + 1
QualInput == (vmcs.EXIT_QUALIFICATION[1] \div 8) % 2 = 1
QualString == (vmcs.EXIT_QUALIFICATION[1] \div 16) % 2 = 1
QualRepeat == (vmcs.EXIT_QUALIFICATION[1] \div 32) % 2 = 1
QualPort == vmcs.EXIT_QUALIFICATION[3] + 256 * vmcs.EXIT_QUALIFICATION[4]
IsUartOut == ~QualInput /\ ~QualString /\ ~QualRepeat /\ QualPort = 1016

\* C1: arch_guest_enter called while cr3_ or entry_ holds UINTPTR_MAX returns
\* ERR_BAD_STATE at once: no worker runs, the current VMCS, the VMCS fields
\* and its launch state, do_resume_, the interrupt flag, the guest registers
\* and the FIFO stay as they were.  A field stops holding UINTPTR_MAX only by
\* a successful setter, since no setter accepts UINTPTR_MAX.
C1_EnterWithoutCr3OrEntry ==
    [][ /\ ( IsCall("arch_guest_enter")
             /\ (cr3_ = UINTPTR_MAX \/ entry_ = UINTPTR_MAX) )
           => /\ ret'.status = ERR_BAD_STATE
              /\ pc' = "idle"
              /\ UNCHANGED << cur_vmcs, launch_state, vmcs, do_resume_, ints,
                              guest_state, serial_fifo, fifo_writes >>
        /\ ( IsCall("x86_guest_set_cr3") /\ ret'.status = NO_ERROR )
           => cr3_' # UINTPTR_MAX
        /\ ( IsCall("arch_guest_set_entry") /\ ret'.status = NO_ERROR )
           => entry_' # UINTPTR_MAX
      ]_vars

\* cr3_ is set, entry_ is not, and arch_guest_enter has returned ERR_BAD_STATE.
C1_Witness ==
    /\ ctx = "alive"
    /\ pc = "idle"
    /\ cr3_ # UINTPTR_MAX
    /\ entry_ = UINTPTR_MAX
    /\ ret.op = "arch_guest_enter"
    /\ ret.status = ERR_BAD_STATE

\* C2: a scoped VMCS load is acquired with interrupts enabled (the assertions
\* of AutoVmcsLoad hold), VMPTRLD executes with interrupts disabled, the
\* scope is left from disabled to enabled, and whenever the worker has
\* returned from Setup or Enter, on any path, interrupts are enabled.
C2_ScopedLoadInterrupts ==
    /\ ~assert_failed
    /\ pc = "load_disable" => ints
    /\ pc \in {"load_vmptrld", "setup", "enter", "vmx_enter", "vmexit", "release"}
       => ~ints
    /\ pc \in {"join", "idle"} => ints

\* Setup has returned ERR_BAD_STATE from its CR4 check, inside the scope of
\* the load, and its worker is about to be joined.
C2_Witness ==
    /\ pc = "join"
    /\ task = "vmcs_setup"
    /\ cur_vmcs = "page_"
    /\ status = ERR_BAD_STATE
    /\ vmcs.GUEST_CR0 # {}
    /\ vmcs.GUEST_CR4 = {}
    /\ ints

\* C3: do_resume_ is false as long as no VMLAUNCH has succeeded on the VMCS
\* and true from the statement after the successful vmx_enter on; it never
\* goes back to false on a live context; when arch_guest_enter returns
\* NO_ERROR, do_resume_ is true.
C3_DoResume ==
    /\ [] /\ do_resume_ => launch_state = "launched"
          /\ (launch_state = "launched" /\ pc # "vmexit") => do_resume_
          /\ ( ret.op = "arch_guest_enter" /\ ret.status = NO_ERROR) => do_resume_
    /\ [][ (do_resume_ /\ ctx = "alive" /\ ctx' = "alive") => do_resume_' ]_vars

\* The first entry succeeded, its exit was not handled, and do_resume_ is set.
C3_Witness ==
    /\ pc = "idle"
    /\ ret.op = "arch_guest_enter"
    /\ ret.status = ERR_NOT_SUPPORTED
    /\ launch_state = "launched"
    /\ do_resume_

\* C4: x86_guest_set_cr3(cr3) returns ERR_INVALID_ARGS when
\* cr3 >= size - PAGE_SIZE (the difference taken in uintptr_t, as the sizes
\* are), and otherwise returns NO_ERROR and stores cr3.
C4_SetCr3 ==
    [][ IsCall("x86_guest_set_cr3")
        => IF GeU(ret'.arg, Sub64(gpas_size, PAGE_SIZE))
           THEN ret'.status = ERR_INVALID_ARGS
           ELSE ret'.status = NO_ERROR /\ cr3_' = ret'.arg
      ]_vars

\* x86_guest_set_cr3(size - PAGE_SIZE) was rejected, on a guest of two pages.
C4_Witness ==
    /\ ret.op = "x86_guest_set_cr3"
    /\ gpas_size = U64(8192)
    /\ ret.arg = U64(4096)
    /\ ret.status = ERR_INVALID_ARGS

\* C5: arch_guest_set_entry(rip) returns ERR_INVALID_ARGS when rip >= size and
\* otherwise returns NO_ERROR and stores rip.
C5_SetEntry ==
    [][ IsCall("arch_guest_set_entry")
        => IF LtU(ret'.arg, gpas_size)
           THEN ret'.status = NO_ERROR /\ entry_' = ret'.arg
           ELSE ret'.status = ERR_INVALID_ARGS
      ]_vars

\* arch_guest_set_entry(size - 1) was accepted, on a guest of two pages.
C5_Witness ==
    /\ ret.op = "arch_guest_set_entry"
    /\ gpas_size = U64(8192)
    /\ ret.arg = U64(8191)
    /\ ret.status = NO_ERROR
    /\ entry_ = U64(8191)

\* C6: on a live context cr3_ is the argument of the last x86_guest_set_cr3
\* that returned NO_ERROR and entry_ the argument of the last
\* arch_guest_set_entry that returned NO_ERROR (UINTPTR_MAX when there was
\* none), whatever calls were made in between.
C6_LastWriteWins ==
    ctx = "alive" => (cr3_ = last_ok.cr3 /\ entry_ = last_ok.entry)

\* Both fields were set, and then an x86_guest_set_cr3 was rejected.
C6_Witness ==
    /\ ctx = "alive"
    /\ ret.op = "x86_guest_set_cr3"
    /\ ret.status = ERR_INVALID_ARGS
    /\ cr3_ # UINTPTR_MAX
    /\ cr3_ # ret.arg
    /\ entry_ # UINTPTR_MAX

\* C7: on a CPUID exit with guest rax = 0 the handler returns NO_ERROR and
\* leaves rax = 0, rbx, rcx and rdx equal to the host's CPUID leaf 0 ebx, ecx
\* and edx (as 64-bit values, whatever the registers held), and GUEST_RIP =
\* guest_rip + instruction_length; the status is what the call returns.
C7_CpuidLeaf0 ==
    [][ /\ ( pc = "vmexit" /\ vmcs.EXIT_REASON = "CPUID"
             /\ guest_state.rax = Zero64 )
           => /\ status' = NO_ERROR
              /\ guest_state'.rax = Zero64
              /\ guest_state'.rbx = ZeroExt(HostCpuid0.ebx)
              /\ guest_state'.rcx = ZeroExt(HostCpuid0.ecx)
              /\ guest_state'.rdx = ZeroExt(HostCpuid0.edx)
              /\ vmcs'.GUEST_RIP = ExitRip
        /\ StatusIsReturned
      ]_vars

\* C8: an exit that is not EXTERNAL_INTERRUPT, not IO_INSTRUCTION and not
\* CPUID with rax = 0 makes the handler return ERR_NOT_SUPPORTED with the
\* guest registers and the FIFO untouched; the status is what the call
\* returns.
C8_UnhandledExit ==
    [][ /\ ( pc = "vmexit"
             /\ vmcs.EXIT_REASON \notin {"EXTERNAL_INTERRUPT", "IO_INSTRUCTION"}
             /\ ~(vmcs.EXIT_REASON = "CPUID" /\ guest_state.rax = Zero64) )
           => /\ status' = ERR_NOT_SUPPORTED
              /\ UNCHANGED <<guest_state, serial_fifo, fifo_writes>>
        /\ StatusIsReturned
      ]_vars

\* CPUID with rax = 1 was answered with ERR_NOT_SUPPORTED.
C8_Witness ==
    /\ pc = "idle"
    /\ ret.op = "arch_guest_enter"
    /\ ret.status = ERR_NOT_SUPPORTED
    /\ vmcs.EXIT_REASON = "CPUID"
    /\ guest_state.rax = U64(1)

\* C9: on an IO_INSTRUCTION exit for an OUT (no string, no REP) to port 0x3F8
\* the handler makes exactly one FIFO write, of the low `bytes` bytes of rax,
\* sets GUEST_RIP = guest_rip + instruction_length and returns the status of
\* that write: NO_ERROR with the bytes in the FIFO, or the FIFO's refusal with
\* the FIFO as it was; the status is what the call returns.
C9_UartOut ==
    [][ /\ ( pc = "vmexit" /\ vmcs.EXIT_REASON = "IO_INSTRUCTION" /\ IsUartOut )
           => LET payload == SubSeq(guest_state.rax, 1, QualBytes)
              IN  /\ fifo_writes' = fifo_writes \o <<payload>>
                  /\ vmcs'.GUEST_RIP = ExitRip
                  /\ \/ status' = NO_ERROR
                        /\ serial_fifo' = serial_fifo \o payload
                     \/ status' = ERR_SHOULD_WAIT
                        /\ serial_fifo' = serial_fifo
        /\ StatusIsReturned
      ]_vars

\* OUT 0x3F8, AL with AL = 0x41 put the byte 0x41 in the empty FIFO.
C9_Witness ==
    /\ pc = "idle"
    /\ ret.op = "arch_guest_enter"
    /\ ret.status = NO_ERROR
    /\ vmcs.EXIT_QUALIFICATION = MakeQual(0, FALSE, FALSE, FALSE, 1016)
    /\ guest_state.rax = U64(65)
    /\ fifo_writes = << <<65>> >>
    /\ serial_fifo = <<65>>

\* C10: on an IO_INSTRUCTION exit that is an IN, a string or a REP access, or
\* to a port other than 0x3F8, the handler leaves the FIFO and the guest
\* registers as they were, makes no FIFO write, sets GUEST_RIP = guest_rip +
\* instruction_length and returns NO_ERROR; the status is what the call
\* returns.
C10_OtherIo ==
    [][ /\ ( pc = "vmexit" /\ vmcs.EXIT_REASON = "IO_INSTRUCTION" /\ ~IsUartOut )
           => /\ status' = NO_ERROR
              /\ UNCHANGED <<guest_state, serial_fifo, fifo_writes>>
              /\ vmcs'.GUEST_RIP = ExitRip
        /\ StatusIsReturned
      ]_vars

\* IN AL, 0x60 returned NO_ERROR without a FIFO write, RIP advanced by 2.
C10_Witness ==
    /\ pc = "idle"
    /\ ret.op = "arch_guest_enter"
    /\ ret.status = NO_ERROR
    /\ vmcs.EXIT_REASON = "IO_INSTRUCTION"
    /\ vmcs.EXIT_QUALIFICATION = MakeQual(0, TRUE, FALSE, FALSE, 96)
    /\ vmcs.GUEST_RIP = U64(4098)
    /\ fifo_writes = <<>>

C12_OverlapInvalidArgs ==
    (probe.op = "set_vmcs_control" /\ probe.args.set \cap probe.args.clear # {}) =>
        /\ probe.result.status = ERR_INVALID_ARGS
        /\ probe.vmcs = VmcsZero

\* C12: set_vmcs_control called with a set mask and a clear mask that share
\* a bit fails and writes nothing to the VMCS; it returns INVALID_ARGS when
\* every bit of the set mask is in allowed_1 and every bit of the clear mask
\* is outside allowed_0, and NOT_SUPPORTED otherwise.
C12_OverlapFails ==
    (probe.op = "set_vmcs_control" /\ probe.args.set \cap probe.args.clear # {}) =>
        LET a == probe.args
            allowed_0 == {b \in a.true_msr : b <= 31}
            allowed_1 == {b - 32 : b \in {x \in a.true_msr : x >= 32}}
        IN  /\ probe.vmcs = VmcsZero
            /\ probe.result.status =
                   IF a.set \subseteq allowed_1 /\ a.clear \cap allowed_0 = {}
                   THEN ERR_INVALID_ARGS
                   ELSE ERR_NOT_SUPPORTED

\* A call with a shared bit that the capability MSR lets be set and cleared.
C12_Witness ==
    /\ probe.op = "set_vmcs_control"
    /\ probe.args.set \cap probe.args.clear # {}
    /\ probe.result.status = ERR_INVALID_ARGS

\* C15: the VPID that a successful Setup writes to the VMCS is not zero, for
\* every CPU number the per-CPU record carries: it is the CPU number plus
\* one, truncated to 16 bits.
C15_VpidNonzero ==
    (probe.op = "Setup" /\ probe.result = NO_ERROR) =>
        /\ probe.vmcs.VPID # 0
        /\ probe.vmcs.VPID = (probe.args + 1) % 65536

\* Setup on the CPU with the largest number.
C15_Witness ==
    /\ probe.op = "Setup"
    /\ probe.result = NO_ERROR
    /\ probe.args = MaxCpuNum
    /\ probe.vmcs.VPID = MaxCpuNum + 1

\* C14: after a successful Setup, in the MSR bitmaps page the read bit and
\* the write bit of IA32_GS_BASE (0xc0000101) and of IA32_KERNEL_GS_BASE
\* (0xc0000102) are 0, and every other bit of the page is 1.  The read bits
\* of the high MSRs start at 1 KiB and their write bits at 3 KiB, so the
\* four bits are bits 1 and 2 of the bytes at 1024 + 32 and 3072 + 32, which
\* then hold 0xf9; every other byte holds 0xff.
C14_MsrBitmaps ==
    ctx = "alive" =>
        /\ msr_bitmaps.fill = 255
        /\ DOMAIN msr_bitmaps.bytes = {1024 + 32, 3072 + 32}
        /\ PageByte(msr_bitmaps, 1024 + 32) = 255 - 2 - 4
        /\ PageByte(msr_bitmaps, 3072 + 32) = 255 - 2 - 4

\* arch_guest_create has returned NO_ERROR.
C14_Witness ==
    /\ ctx = "alive"
    /\ ret.op = "arch_guest_create"
    /\ ret.status = NO_ERROR
    /\ PageByte(msr_bitmaps, 1024 + 32) = 249

\* ------------------------------------------------------------------------
\* The value satisfies the fixed bits: every bit of fixed0 is 1 in it and
\* every bit outside fixed1 is 0 in it.
FixedBitsHold(value, fixed0, fixed1) ==
    fixed0 \subseteq value /\ value \subseteq fixed1

\* C13: in every state where a GuestContext has been created, the values
\* written to HOST_CR0, HOST_CR4, GUEST_CR0 and GUEST_CR4 satisfy the fixed
\* bits of IA32_VMX_CR0_FIXED0/1 and IA32_VMX_CR4_FIXED0/1, whatever calls of
\* arch_hypervisor_create, arch_guest_create and drops came before.
C13_FixedBits ==
    ctx = "alive" =>
        /\ FixedBitsHold(vmcs.HOST_CR0, read_msr(msr, "CR0_FIXED0"),
                         read_msr(msr, "CR0_FIXED1"))
        /\ FixedBitsHold(vmcs.GUEST_CR0, read_msr(msr, "CR0_FIXED0"),
                         read_msr(msr, "CR0_FIXED1"))
        /\ FixedBitsHold(vmcs.HOST_CR4, read_msr(msr, "CR4_FIXED0"),
                         read_msr(msr, "CR4_FIXED1"))
        /\ FixedBitsHold(vmcs.GUEST_CR4, read_msr(msr, "CR4_FIXED0"),
                         read_msr(msr, "CR4_FIXED1"))

\* arch_guest_create has made a GuestContext on a CPU whose CR4 held SMXE
\* when the hypervisor context was made from CR4.VMXE = 0.
C13_Witness ==
    /\ ctx = "alive"
    /\ hyp = "alive"
    /\ pc = "idle"
    /\ ret.op = "arch_guest_create"
    /\ ret.status = NO_ERROR
    /\ at_call.cr4 = {5, 7, 9, 10, 14}
    /\ vmcs.HOST_CR4 = {5, 7, 9, 10, 13, 14}
    /\ vmcs.GUEST_CR4 = {5, 13}
    /\ vmcs.GUEST_CR0 = {0, 5, 31}

\* IA32_FEATURE_CONTROL but for its LOCK and VMXON bits.
OtherFeatureBits(fc) ==
    fc \ (X86_MSR_IA32_FEATURE_CONTROL_LOCK \cup X86_MSR_IA32_FEATURE_CONTROL_VMXON)

\* C16: starting from CR4.VMXE = 0, while the context made by a successful
\* arch_hypervisor_create exists CR4.VMXE is 1 and the CPU is in VMX
\* operation, and dropping the context leaves CR4.VMXE = 0 and
\* IA32_FEATURE_CONTROL as it was before the creation, except that LOCK and
\* VMXON may have been set when the MSR was unlocked.
C16_CreateThenDrop ==
    /\ [](hyp = "alive" /\ at_call.cr4 \cap X86_CR4_VMXE = {}
            => X86_CR4_VMXE \subseteq cr4 /\ vmx_root)
    /\ [][ hyp = "alive" /\ hyp' = "none" /\ at_call.cr4 \cap X86_CR4_VMXE = {}
            => /\ cr4' \cap X86_CR4_VMXE = {}
               /\ OtherFeatureBits(feature_control')
                      = OtherFeatureBits(at_call.feature_control)
               /\ at_call.feature_control \subseteq feature_control'
               /\ X86_MSR_IA32_FEATURE_CONTROL_LOCK
                      \subseteq at_call.feature_control
                    => feature_control' = at_call.feature_control ]_vars

\* IA32_FEATURE_CONTROL is locked with VMXON clear.
LockedOut(fc) ==
    /\ X86_MSR_IA32_FEATURE_CONTROL_LOCK \subseteq fc
    /\ X86_MSR_IA32_FEATURE_CONTROL_VMXON \cap fc = {}

\* C17: when vmx_enable reads IA32_FEATURE_CONTROL locked with VMXON clear,
\* it executes no VMXON and writes neither the MSR nor CR4, and
\* arch_hypervisor_create returns ERR_NOT_SUPPORTED with CR4 and the MSR as
\* they were when it was called; the MSR is written only when it reads
\* unlocked, and then it becomes its old value with LOCK and VMXON added; it
\* is not written when it reads locked with VMXON set.
C17_FeatureControl ==
    [][ /\ pc = "vmx_enable" /\ at_call'.msr_read /\ LockedOut(feature_control)
            => /\ status' = ERR_NOT_SUPPORTED
               /\ cr4' = cr4
               /\ feature_control' = feature_control
               /\ vmx_root' = vmx_root
               /\ ~at_call'.msr_written
               /\ ~at_call'.vmxon_executed
        /\ pc = "join" /\ task = "vmx_enable" /\ pc' = "idle" /\ at_call.msr_read
              /\ LockedOut(at_call.feature_control)
            => /\ ret'.op = "arch_hypervisor_create"
               /\ ret'.status = ERR_NOT_SUPPORTED
               /\ cr4' = at_call.cr4
               /\ feature_control' = at_call.feature_control
               /\ ~vmx_root'
        /\ (feature_control' # feature_control \/ (pc = "vmx_enable" /\ at_call'.msr_written))
            => /\ pc = "vmx_enable"
               /\ at_call'.msr_read
               /\ X86_MSR_IA32_FEATURE_CONTROL_LOCK \cap feature_control = {}
               /\ feature_control' =
                      feature_control \cup X86_MSR_IA32_FEATURE_CONTROL_LOCK
                          \cup X86_MSR_IA32_FEATURE_CONTROL_VMXON
        /\ pc = "vmx_enable"
              /\ X86_MSR_IA32_FEATURE_CONTROL_LOCK \subseteq feature_control
              /\ X86_MSR_IA32_FEATURE_CONTROL_VMXON \subseteq feature_control
            => ~at_call'.msr_written /\ feature_control' = feature_control
      ]_vars

\* arch_hypervisor_create has returned ERR_NOT_SUPPORTED on a capable CPU
\* whose IA32_FEATURE_CONTROL is locked with VMXON clear.
C17_Witness ==
    /\ pc = "idle"
    /\ ret.op = "arch_hypervisor_create"
    /\ ret.status = ERR_NOT_SUPPORTED
    /\ at_call.msr_read
    /\ LockedOut(feature_control)

\* The step is a return of arch_hypervisor_create with a failure.
HypervisorCreateFails ==
    /\ pc' = "idle"
    /\ ret'.op = "arch_hypervisor_create"
    /\ ret'.status # NO_ERROR
    /\ pc = "idle" \/ (pc = "join" /\ task = "vmx_enable")

\* C18: whenever arch_hypervisor_create returns a failure, on return CR4.VMXE
\* is clear and the CPU is not in VMX operation unless it was when the call
\* was made.
C18_FailureLeavesCpuClean ==
    [][ HypervisorCreateFails
            => /\ cr4' \cap X86_CR4_VMXE = {}
               /\ vmx_root' => at_call'.vmx_root ]_vars

\* C19: over any sequence of arch_hypervisor_create, arch_guest_create and
\* drops, with creations that fail part-way, no frame is freed that is not
\* handed out, the frames handed out are those the VmxPage objects hold,
\* each held by one object, and an object whose context is gone holds none.
C19_FramesReturnedOnce ==
    /\ ~pmm.bad_free
    /\ pmm.allocated = {pa_[p] : p \in DOMAIN pa_} \ {0}
    /\ \A p, q \in DOMAIN pa_ : p # q /\ pa_[p] # 0 => pa_[p] # pa_[q]
    /\ ctx = "none" => \A p \in VmcsPages : pa_[p] = 0
    /\ hyp = "none" /\ task # "vmx_enable" => \A p \in VmxonPages : pa_[p] = 0

\* arch_guest_create has failed with ERR_NO_MEMORY while the hypervisor
\* context holds its frame, and the destructor of the half-made guest
\* context got a failure from percpu_exec.
C19_Witness ==
    /\ pc = "idle"
    /\ ret.op = "arch_guest_create"
    /\ ret.status = ERR_NO_MEMORY
    /\ dtor_failed
    /\ hyp = "alive"
    /\ pmm.allocated = {pa_["vmxon.page_"]}
    /\ pa_["vmxon.page_"] # 0

\* A capability that vmx_enable requires is missing.
CapabilityMissing ==
    \/ ~VmxInfo(vmx_cap.BASIC).io_exit_info
    \/ ~VmxInfo(vmx_cap.BASIC).vmx_controls
    \/ ~EptInfo(vmx_cap.EPT_VPID_CAP).page_walk_4
    \/ ~EptInfo(vmx_cap.EPT_VPID_CAP).write_back
    \/ ~EptInfo(vmx_cap.EPT_VPID_CAP).ept_flags
    \/ ~EptInfo(vmx_cap.EPT_VPID_CAP).invept
    \/ ~MiscInfo(vmx_cap.MISC).wait_for_sipi

\* C20: if a required capability is missing, vmx_enable returns
\* ERR_NOT_SUPPORTED, whatever CR0, CR4 and IA32_FEATURE_CONTROL hold, and it
\* has written no MSR, has not changed CR4 and has not executed VMXON.
C20_MissingCapability ==
    [][ pc = "vmx_enable" /\ CapabilityMissing
            => /\ status' = ERR_NOT_SUPPORTED
               /\ feature_control' = feature_control
               /\ cr4' = cr4
               /\ vmx_root' = vmx_root
               /\ ~at_call'.msr_read
               /\ ~at_call'.msr_written
               /\ ~at_call'.vmxon_executed ]_vars

\* vmx_enable has returned on a CPU without wait_for_sipi whose CR0 lacks
\* the NE bit and whose IA32_FEATURE_CONTROL is unlocked.
C20_Witness ==
    /\ pc = "join"
    /\ task = "vmx_enable"
    /\ status = ERR_NOT_SUPPORTED
    /\ ~MiscInfo(vmx_cap.MISC).wait_for_sipi
    /\ X86_CR0_NE \cap cr0 = {}
    /\ feature_control = {}

\* ------------------------------------------------------------------------
\* The worker of arch_guest_enter carries the failure of vmx_enter.
EntryFailed == task = "vmcs_launch" /\ status = ERR_INTERNAL

\* C21: when vmx_enter reports that VMLAUNCH or VMRESUME failed, Enter
\* returns that failure, do_resume_ keeps its value, vmexit_handler is not
\* called (the guest registers, the VMCS with GUEST_RIP, and the FIFO keep
\* their values up to the return), and arch_guest_enter returns the failure
\* with interrupts enabled.
C21_EntryFailure ==
    [][ /\ pc = "vmx_enter" => (status' # NO_ERROR <=> pc' # "vmexit")
        /\ (pc = "vmx_enter" /\ status' # NO_ERROR)
           => /\ pc' = "release"
              /\ EntryFailed'
              /\ ~ints'
              /\ UNCHANGED << do_resume_, guest_state, vmcs, launch_state,
                              serial_fifo, fifo_writes >>
        /\ (pc = "release" /\ EntryFailed)
           => /\ pc' = "join"
              /\ EntryFailed'
              /\ ints'
              /\ UNCHANGED << do_resume_, guest_state, vmcs, launch_state,
                              serial_fifo, fifo_writes >>
        /\ (pc = "join" /\ EntryFailed)
           => /\ pc' = "idle"
              /\ ret'.op = "arch_guest_enter"
              /\ ret'.status = ERR_INTERNAL
              /\ ints'
              /\ UNCHANGED << do_resume_, guest_state, vmcs, launch_state,
                              serial_fifo, fifo_writes >>
      ]_vars

\* arch_guest_enter has returned the failure of a VMLAUNCH: do_resume_ is
\* still false and GUEST_RIP holds entry_.
C21_Witness ==
    /\ pc = "idle"
    /\ ret.op = "arch_guest_enter"
    /\ ret.status = ERR_INTERNAL
    /\ ints
    /\ ~do_resume_
    /\ vmcs.GUEST_RIP = entry_
    /\ entry_ # UINTPTR_MAX
    /\ fifo_writes = <<>>

\* C22: GUEST_CR3 and GUEST_RIP are written from cr3_ and entry_ only by an
\* Enter that runs with do_resume_ false; an Enter that runs with do_resume_
\* true leaves the VMCS as it is, so that from the return of vmexit_handler
\* to the VMRESUME GUEST_RIP keeps the value the handler left;
\* x86_guest_set_cr3 and arch_guest_set_entry do not change the VMCS.
C22_GuestRipAndCr3 ==
    [][ /\ (pc = "enter" /\ ~do_resume_)
           => vmcs'.GUEST_CR3 = cr3_ /\ vmcs'.GUEST_RIP = entry_
        /\ (pc = "enter" /\ do_resume_) => vmcs' = vmcs
        /\ vmcs'.GUEST_CR3 # vmcs.GUEST_CR3 => (pc = "enter" /\ ~do_resume_)
        /\ (do_resume_ /\ pc \notin {"vmx_enter", "vmexit"})
           => vmcs'.GUEST_RIP = vmcs.GUEST_RIP
        /\ (IsCall("x86_guest_set_cr3") \/ IsCall("arch_guest_set_entry"))
           => vmcs' = vmcs
      ]_vars

\* The second arch_guest_enter is about to execute VMRESUME: GUEST_RIP is the
\* RIP that the CPUID handler advanced by 2, and entry_ is 0.
C22_Witness ==
    /\ pc = "vmx_enter"
    /\ do_resume_
    /\ launch_state = "launched"
    /\ vmcs.EXIT_REASON = "CPUID"
    /\ vmcs.GUEST_RIP = U64(4098)
    /\ entry_ = Zero64

\* C23: on every CPUID exit, whatever the guest's rax holds, the handler
\* leaves GUEST_RIP at the guest RIP of the exit plus the instruction length.
C23_CpuidAdvancesRip ==
    [][ (pc = "vmexit" /\ vmcs.EXIT_REASON = "CPUID")
           => vmcs'.GUEST_RIP = ExitRip ]_vars

\* IoInfo has decoded the fields the exit qualification was made of.
IoInfoDecodes ==
    /\ probe.result.bytes = probe.args.fields.size1 + 1
    /\ probe.result.input = probe.args.fields.input
    /\ probe.result.string = probe.args.fields.string
    /\ probe.result.repeat = probe.args.fields.repeat
    /\ probe.result.port = probe.args.fields.port

\* C24 as stated: for every 64-bit exit qualification IoInfo decodes
\* bytes = bits 2:0 + 1, input = bit 3, string = bit 4, repeat = bit 5 and
\* port = bits 31:16, bytes lies in 1..4, and a forwarded UART write carries
\* at most 4 bytes.
C24_BytesAtMost4 ==
    probe.op = "IoInfo"
        => /\ IoInfoDecodes
           /\ probe.result.bytes \in 1 .. 4
           /\ \A i \in DOMAIN probe.writes : Len(probe.writes[i]) <= 4

\* C24: for every 64-bit exit qualification IoInfo decodes bytes = bits 2:0
\* + 1, input = bit 3, string = bit 4, repeat = bit 5 and port = bits 31:16;
\* bytes lies in 1..8 and a forwarded UART write carries bytes bytes of rax,
\* at most 8; bytes lies in 1..4 when bits 2:0 hold 0, 1 or 3.
C24_IoInfoDecoding ==
    probe.op = "IoInfo"
        => /\ IoInfoDecodes
           /\ probe.result.bytes \in 1 .. 8
           /\ probe.args.fields.size1 \in {0, 1, 3} => probe.result.bytes \in 1 .. 4
           /\ \A i \in DOMAIN probe.writes :
                  /\ Len(probe.writes[i]) = probe.result.bytes
                  /\ Len(probe.writes[i]) <= 8

\* OUT to the UART port with 7 in bits 2:0 and the ignored bits set: eight
\* bytes of rax are forwarded.
C24_Witness ==
    /\ probe.op = "IoInfo"
    /\ probe.args.qualification = <<199, 255, 248, 3, 255, 255, 255, 255>>
    /\ probe.result.bytes = 8
    /\ probe.result.port = kUartIoPort
    /\ probe.writes = << <<66, 67, 68, 69, 70, 71, 72, 73>> >>

\* The entry of an MSR list at index i names MSR m.
ListNames(list, i, m) == i \in DOMAIN list.entries /\ list.entries[i].msr = m

\* C25: at every VMLAUNCH and VMRESUME the host MSR list holds IA32_STAR,
\* IA32_LSTAR and IA32_FMASK at indices 0..2 with the values read at Setup,
\* and IA32_KERNEL_GS_BASE at index 3 with the value the MSR has during this
\* Enter, and the VM-exit MSR-load count is 4; the guest MSR list holds
\* IA32_KERNEL_GS_BASE at index 0 and the VM-exit MSR-store and VM-entry
\* MSR-load counts are 1; no index written to a list is 32 or more.
C25_MsrLists ==
    /\ pc = "vmx_enter"
       => /\ DOMAIN host_msr_page_.entries = 0 .. 3
          /\ host_msr_page_.entries[0] =
                 [msr |-> X86_MSR_IA32_STAR, value |-> HostMsrs.STAR]
          /\ host_msr_page_.entries[1] =
                 [msr |-> X86_MSR_IA32_LSTAR, value |-> HostMsrs.LSTAR]
          /\ host_msr_page_.entries[2] =
                 [msr |-> X86_MSR_IA32_FMASK, value |-> HostMsrs.FMASK]
          /\ host_msr_page_.entries[3] =
                 [msr |-> X86_MSR_IA32_KERNEL_GS_BASE, value |-> kernel_gs_base]
          /\ vmcs.EXIT_MSR_LOAD_COUNT = 4
          /\ DOMAIN guest_msr_page_.entries = {0}
          /\ ListNames(guest_msr_page_, 0, X86_MSR_IA32_KERNEL_GS_BASE)
          /\ vmcs.EXIT_MSR_STORE_COUNT = 1
          /\ vmcs.ENTRY_MSR_LOAD_COUNT = 1
    /\ ~host_msr_page_.panic
    /\ ~guest_msr_page_.panic
    /\ \A i \in DOMAIN host_msr_page_.entries \cup DOMAIN guest_msr_page_.entries :
          i < 32

\* A VMRESUME made for the second user thread: index 3 of the host list holds
\* its GS base, not the one the first Enter wrote, and index 0 of the guest
\* list holds what the guest left at its exit.
C25_Witness ==
    /\ pc = "vmx_enter"
    /\ do_resume_
    /\ kernel_gs_base # UserGsBase
    /\ host_msr_page_.entries[3].value = kernel_gs_base
    /\ guest_msr_page_.entries[0].value = <<1, 2, 3, 4, 5, 6, 7, 8>>

\* C26: when a context is destroyed, VMCLEAR of the VMCS region has been
\* executed before the frame of the VMCS page is freed, so that the region is
\* no longer the current VMCS and holds no launch state, and VMXOFF before
\* the frame of the VMXON page is freed, so that the CPU has left the VMX
\* operation its VMXON entered; also when VMXOFF or VMCLEAR fails.
C26_ReleasedBeforeFreed ==
    [][ /\ pa_["vmcs.page_"] # 0 /\ pa_'["vmcs.page_"] = 0
           => cur_vmcs' = "none" /\ launch_state' = "clear"
        /\ pa_["vmxon.page_"] # 0 /\ pa_'["vmxon.page_"] = 0 /\ is_on_
           => ~vmx_root' ]_vars

\* C27: every position of the worker from which a VMCS field is read or
\* written, or the guest entered, has interrupts disabled and the VMCS of
\* the scoped load current.  The EXTERNAL_INTERRUPT case returns NO_ERROR
\* with GUEST_RIP and the guest registers as the exit left them; from its
\* interrupt window, in which the worker of another guest may load its VMCS,
\* to the return of arch_guest_enter no VMCS field changes, and the window is
\* left with interrupts disabled.
C27_VmcsAccessInScope ==
    /\ [](pc \in {"setup", "enter", "vmx_enter", "vmexit"}
            => ~ints /\ cur_vmcs = "page_")
    /\ [][ /\ pc = "vmexit" /\ vmcs.EXIT_REASON = "EXTERNAL_INTERRUPT"
              => /\ status' = NO_ERROR
                 /\ pc' = "extint_window"
                 /\ UNCHANGED <<vmcs, guest_state>>
           /\ pc = "extint_window"
              => /\ pc' \in {"extint_window", "release"}
                 /\ pc' = "release" => ~ints'
                 /\ UNCHANGED <<vmcs, guest_state, status>>
           /\ task = "vmcs_launch" /\ pc \in {"release", "join"}
              => UNCHANGED <<vmcs, guest_state>>
           /\ task = "vmcs_launch" /\ pc = "release" => status' = status
           /\ task = "vmcs_launch" /\ pc = "join" => ret'.status = status ]_vars

\* The EXTERNAL_INTERRUPT case has returned while the VMCS of another guest,
\* loaded in the window, is the current one.
C27_Witness ==
    /\ pc = "release"
    /\ task = "vmcs_launch"
    /\ vmcs.EXIT_REASON = "EXTERNAL_INTERRUPT"
    /\ cur_vmcs = "other"
    /\ ~ints
    /\ status = NO_ERROR

\* C28: over any sequence of arch_hypervisor_create and drops, with a second
\* arch_hypervisor_create made while an earlier context is alive, CR4.VMXE
\* is not cleared, and no clearing of it attempted, while the CPU is in VMX
\* operation, and the CPU leaves VMX operation only by the VMXOFF of a
\* context whose VMXON succeeded.
C28_VmxeKeptInVmxOperation ==
    [][ /\ pc # "fault" /\ pc' = "fault" => ~vmx_root
        /\ X86_CR4_VMXE \subseteq cr4 /\ cr4' \cap X86_CR4_VMXE = {}
           => ~vmx_root'
        /\ vmx_root /\ ~vmx_root'
           => \/ is_on_
              \/ pa_["earlier.page_"] # 0 /\ pa_'["earlier.page_"] = 0 ]_vars

\* C29: on the VMCS of a context the instructions come in the order VMCLEAR,
\* VMPTRLD, field writes, VMLAUNCH: Setup loads the VMCS after its VMCLEAR
\* and writes its fields while it is current, and vmx_enter is reached only
\* on a context whose Setup succeeded, with the VMCS current.  vmx_enter
\* issues VMRESUME exactly when a VMLAUNCH has succeeded on the VMCS since
\* its last VMCLEAR, and VMLAUNCH otherwise; a failed VMLAUNCH leaves
\* do_resume_ false, so that the next entry is a VMLAUNCH again.
C29_InstructionOrder ==
    /\ [] /\ task = "vmcs_setup" /\ pc \in {"load_disable", "load_vmptrld", "setup"}
             => launch_state = "clear" /\ ~do_resume_
          /\ pc = "setup" => cur_vmcs = "page_"
          /\ pc = "vmx_enter"
             => /\ ctx = "alive"
                /\ cur_vmcs = "page_"
                /\ vmcs.EXIT_MSR_LOAD_COUNT = 4
                /\ do_resume_ <=> launch_state = "launched"
    /\ [][ /\ task = "vmcs_setup" /\ vmcs' # vmcs /\ ctx' # "none"
              => pc = "setup"
           /\ pc = "vmx_enter" /\ status' # NO_ERROR
              => UNCHANGED <<do_resume_, launch_state>>
           /\ launch_state' # launch_state
              => \/ pc = "vmx_enter" /\ ~do_resume_ /\ launch_state' = "launched"
                 \/ launch_state' = "clear" /\ ~do_resume_' ]_vars

\* A VMRESUME is about to be issued on the VMCS, which is current and on
\* which an earlier VMLAUNCH succeeded.
C29_Witness ==
    /\ pc = "vmx_enter"
    /\ do_resume_
    /\ launch_state = "launched"
    /\ cur_vmcs = "page_"
    /\ vmcs.EXIT_REASON = "EXTERNAL_INTERRUPT"

\* A 64-bit value with one more byte, in which a sum of two 64-bit values
\* does not wrap.
Wide(a) == a \o <<0>>

\* C30: whenever x86_guest_set_cr3 returns NO_ERROR, the accepted cr3
\* satisfies cr3 + PAGE_SIZE < size as integers, whatever the size of the
\* guest memory, sizes below PAGE_SIZE included; and neither setter accepts
\* UINTPTR_MAX.
C30_AcceptedCr3Inside ==
    [][ /\ IsCall("x86_guest_set_cr3") /\ ret'.status = NO_ERROR
           => LtU(AddC(Wide(ret'.arg), Wide(PAGE_SIZE), 0), Wide(gpas_size))
        /\ ( /\ IsCall("x86_guest_set_cr3") \/ IsCall("arch_guest_set_entry")
             /\ ret'.arg = UINTPTR_MAX )
           => ret'.status = ERR_INVALID_ARGS ]_vars

====
